---- MODULE Spec2Model ----
(***************************************************************************)
(* A model of the consensus and state-transition core of the node:         *)
(*   - the DAG engine (DagModule) and the harvester certificate handlers,  *)
(*   - the round apply of the state module,                                *)
(*   - the left-right mempool,                                             *)
(*   - the DKG exchange driven by the runtime,                             *)
(*   - the event router.                                                   *)
(* Each subsystem has its own specification; the variables of the other    *)
(* subsystems stay at their idle values.                                   *)
(***************************************************************************)
EXTENDS Integers, Sequences, FiniteSets, TLC

(***************************************************************************)
(* Bounds of the model.                                                    *)
(***************************************************************************)
NumNodes == 3
HarvesterThreshold == 2
MaxCertsPerHash == 2
MaxEvents == 2

(***************************************************************************)
(* Option<T>: None is the empty sequence, Some(x) the one-element one.     *)
(***************************************************************************)
None == <<>>
Some(x) == <<x>>
IsSome(o) == o # <<>>
Unwrap(o) == o[1]

(***************************************************************************)
(* Blocks.  A block hash is a content hash, so the references of a block   *)
(* are fixed by its hash; the certificate is attached later and is not     *)
(* part of the hash.                                                       *)
(***************************************************************************)
NodeIds == 1..NumNodes

GenesisHashes == {"g1", "g2"}
ProposalHashes == {"p1", "p2"}
ConvergenceHashes == {"c1", "c2"}
BlockHashes == GenesisHashes \cup ProposalHashes \cup ConvergenceHashes

\* ProposalBlock.ref_block / ConvergenceBlock.header.ref_hashes
RefHashesOf(h) ==
    CASE h = "p1" -> {"g1"}
      [] h = "p2" -> {"c1"}
      [] h = "c1" -> {"p1"}
      [] h = "c2" -> {"p2"}
      [] OTHER -> {}

KindOf(h) ==
    IF h \in GenesisHashes THEN "Genesis"
    ELSE IF h \in ProposalHashes THEN "Proposal" ELSE "Convergence"

MkBlock(h, cert) ==
    [kind |-> KindOf(h), hash |-> h, ref_hashes |-> RefHashesOf(h),
     certificate |-> cert]

\* SignerEngine::sign: the partial signature of node n over a payload
Sign(n, payload) == [signer |-> n, payload |-> payload]

\* the members of the active harvester quorum
HarvesterMembers == NodeIds

\* SignerEngine::verify
verify(node_id, sig, payload) ==
    node_id \in HarvesterMembers /\ sig = Sign(node_id, payload)

\* SignerEngine::verify_batch
verify_batch(sigs, payload) ==
    \A s \in sigs : verify(s[1], s[2], payload)

\* Certificate: the signatures, the block hash and the optional inauguration
MkCertificate(sigs, h) ==
    [signatures |-> sigs, block_hash |-> h, inauguration |-> None]

\* certificates that arrive with blocks from the network
ValidCert(h) ==
    MkCertificate({<<n, Sign(n, h)>> : n \in 1..HarvesterThreshold}, h)
ForgedCert(h) ==
    MkCertificate({<<n, Sign(n, "g1")>> : n \in 1..HarvesterThreshold}, h)
EmptyCert(h) == MkCertificate({}, h)
NetCerts(h) == {ValidCert(h), ForgedCert(h), EmptyCert(h)}

\* a ProposalBlock as it arrives: its hash, the block it refers to, its
\* proposer and the signature its validation data can be built from
MkProposalBlock(h, from, signature) ==
    [hash |-> h, ref_block |-> CHOOSE r \in RefHashesOf(h) : TRUE,
     from |-> from, signature |-> signature]

\* proposals from the network: without a signature, with the signature of
\* the proposer, with a signature over another payload
ProposalBlockInputs ==
    UNION {{MkProposalBlock(h, 1, sig) :
               sig \in {None, Some(Sign(1, h)), Some(Sign(1, "g1"))}} :
           h \in ProposalHashes}

GenesisInputs == {MkBlock(h, None) : h \in GenesisHashes}
ProposalInputs == {MkBlock(h, None) : h \in ProposalHashes}
ConvergenceInputs ==
    {MkBlock(h, None) : h \in ConvergenceHashes}
    \cup UNION {{MkBlock(h, Some(c)) : c \in NetCerts(h)} : h \in ConvergenceHashes}

VARIABLES
    dag_vertices,                   \* BullDag vertices: a set of blocks, one per hash
    dag_edges,                      \* BullDag edges <<source hash, target hash>>
    last_confirmed_block,           \* Option<Block> (its header is last_confirmed_block_header)
    pending_convergence_blocks,     \* IndexMap<hash, ConvergenceBlock>, as a set of blocks
    partial_certificate_signatures, \* IndexMap<hash, HashSet<(NodeId, Signature)>>
    quorum_kind,                    \* the quorum this node was assigned to
    events,                         \* events_tx: the events sent and not yet handled
    certs_formed,                   \* how many certificates were formed per block hash
    valid_delivered,                \* the (hash, node) pairs a valid partial signature came for
    orphan_proposals,               \* the proposals that came while their reference was missing
    quorum_pending,                 \* NodeRuntime.quorum_pending: the elected quorum members
    quorum_members,                 \* sig_engine: the active quorum members
    votes_pool,                     \* the transactions with votes that are not yet certified
    apply_result,                   \* the ApplyBlockResult the last operation returned, if any
    last_op                         \* the last handler that ran, and its result

dagVars == <<dag_vertices, dag_edges, last_confirmed_block,
             pending_convergence_blocks, partial_certificate_signatures,
             quorum_kind, events, certs_formed, valid_delivered,
             orphan_proposals, quorum_pending, quorum_members, votes_pool,
             apply_result,
             last_op>>

VARIABLES
    accounts,                       \* VrrbDb state store: address -> account
    txn_store,                      \* VrrbDb transaction store: the digests written
    ledger_credits,                 \* NetworkState ledger.credits
    ledger_debits,                  \* NetworkState ledger.debits
    rounds_applied,                 \* how many rounds and dumps were applied
    last_round,                     \* the round the last update_state was given
    last_updates,                   \* the update list the last update_state built
    state_result,                   \* the result of the last update_state
    state_op,                       \* the operation of the last step
    failed_updates                  \* addresses whose update_account returned Err

stateVars == <<accounts, txn_store, ledger_credits, ledger_debits,
               rounds_applied, last_round, last_updates, state_result,
               state_op, failed_updates>>

VARIABLES
    lr_copies,                      \* left_right: the two copies of the Mempool
    lr_read_idx,                    \* left_right: the copy the read handles point to
    lr_oplog,                       \* WriteHandle.oplog
    lr_swap_index,                  \* WriteHandle.swap_index
    lr_first,                       \* WriteHandle.first
    lr_second,                      \* WriteHandle.second
    lr_pinned,                      \* readers that were inside a read at the last swap
    wr_pc,                          \* where the writer is in its operation
    wr_todo,                        \* the transactions the writer has still to stage
    wr_op,                          \* the operation the writer is running
    wr_absorb_i,                    \* the next oplog entry publish applies
    writes_done,                    \* the write operations completed
    rd_pc,                          \* where each reader is in get()
    rd_ptr,                         \* the copy a reader entered
    rd_view,                        \* the clone a reader has built so far
    mp_logical,                     \* the mempool as the completed operations define it
    rd_candidates                   \* the values mp_logical had during a read

mempoolVars == <<lr_copies, lr_read_idx, lr_oplog, lr_swap_index, lr_first,
                 lr_second, lr_pinned, wr_pc, wr_todo, wr_op, wr_absorb_i,
                 writes_done, rd_pc, rd_ptr, rd_view, mp_logical, rd_candidates>>

VARIABLES
    rt_topics,                      \* EventRouter.topics: the topics that have a channel
    rt_subs,                        \* the topic each subscriber holds a receiver of
    rt_queue,                       \* per subscriber, the events sent and not yet received
    rt_received,                    \* per subscriber, the events it has received
    rt_inbox,                       \* event_rx: the directed events sent to the router
    rt_status,                      \* the router: set up, running, stopped
    node_pc,                        \* where Node::wait is
    rt_published                    \* how many events the modules have published

routerVars == <<rt_topics, rt_subs, rt_queue, rt_received, rt_inbox, rt_status,
                node_pc, rt_published>>

\* the DKG exchange
VARIABLES
    dkg_pc,             \* the loop of run_dkg_process that is running
    dkg_nodes_order,    \* iteration order of the nodes map
    dkg_parts_order,    \* iteration order of the parts map
    dkg_i,              \* position of the outer loop
    dkg_j,              \* position of the inner loop
    dkg_parts,          \* the parts collected by the driver
    dkg_acks,           \* the acks collected by the driver
    dkg_state,          \* per member: part store, ack store, key generation
    public_key_set,     \* per member: Option<PublicKeySet>
    quorum_membership   \* per member: quorum kind and Option<QuorumId>

dkgVars == <<dkg_pc, dkg_nodes_order, dkg_parts_order, dkg_i, dkg_j, dkg_parts,
             dkg_acks, dkg_state, public_key_set, quorum_membership>>

\* consolidate_update_args, step by step
VARIABLES
    cs_pending,         \* the updates the loop has not reached yet
    cs_consolidated,    \* the entry of the address in consolidated_updates
    cs_order,           \* the updates in the order the loop took them
    cs_status,          \* running, done or panicked
    cs_build            \* whether the build checks integer overflow

consolidateVars == <<cs_pending, cs_consolidated, cs_order, cs_status, cs_build>>

\* the records of the mempool
VARIABLES
    mp_pool,            \* Mempool: pending, validated, rejected, each id -> TxnRecord
    mp_clock,           \* the last value SystemTime::now returned
    mp_last             \* the last call of the mempool and its result

poolVars == <<mp_pool, mp_clock, mp_last>>

\* the DKG engine of one node
VARIABLES
    eng_dkg_state,      \* DkgEngine.dkg_state
    eng_pc,             \* how many assignments of clear_dkg_state are done (0: at rest)
    eng_observed,       \* what the last reader of the engine saw, and at which
                        \* assignment of clear_dkg_state
    eng_last            \* the last call on the engine and, for clear_dkg_state,
                        \* the state it started from

engineVars == <<eng_dkg_state, eng_pc, eng_observed, eng_last>>

\* a node runtime: its quorum membership and, as a farmer, its votes
VARIABLES
    nr_node_type,           \* config.node_type
    nr_quorum_membership,   \* consensus_driver.quorum_membership
    nr_mempool,             \* the transactions inserted into the mempool
    nr_votes,               \* the votes the node has cast
    nr_last                 \* the last call and its result

runtimeVars == <<nr_node_type, nr_quorum_membership, nr_mempool, nr_votes,
                 nr_last>>

\* the claims of the ledger and the miner election
VARIABLES
    el_claim_map,       \* ledger.claims, in insertion order: claim hash and pointer
    el_result           \* what the last get_lowest_pointer returned, if it was called

electionVars == <<el_claim_map, el_result>>

vars == <<dagVars, stateVars, mempoolVars, routerVars, dkgVars,
          consolidateVars, poolVars, engineVars, runtimeVars,
          electionVars>>

otherThanDag == <<stateVars, mempoolVars, routerVars, dkgVars,
                consolidateVars, poolVars, engineVars, runtimeVars,
                electionVars>>
otherThanState == <<dagVars, mempoolVars, routerVars, dkgVars, consolidateVars,
                  poolVars, engineVars, runtimeVars, electionVars>>
otherThanMempool == <<dagVars, stateVars, routerVars, dkgVars, consolidateVars,
                    poolVars, engineVars, runtimeVars, electionVars>>
otherThanRouter == <<dagVars, stateVars, mempoolVars, dkgVars, consolidateVars,
                   poolVars, engineVars, runtimeVars, electionVars>>
otherThanDkg == <<dagVars, stateVars, mempoolVars, routerVars,
                consolidateVars, poolVars, engineVars, runtimeVars,
                electionVars>>
otherThanConsolidate == <<dagVars, stateVars, mempoolVars, routerVars, dkgVars,
                        poolVars, engineVars, runtimeVars, electionVars>>
otherThanPool == <<dagVars, stateVars, mempoolVars, routerVars, dkgVars,
                 consolidateVars, engineVars, runtimeVars, electionVars>>
otherThanEngine == <<dagVars, stateVars, mempoolVars, routerVars, dkgVars,
                   consolidateVars, poolVars, runtimeVars, electionVars>>
otherThanRuntime == <<dagVars, stateVars, mempoolVars, routerVars, dkgVars,
                    consolidateVars, poolVars, engineVars, electionVars>>
otherThanElection == <<dagVars, stateVars, mempoolVars, routerVars, dkgVars,
                     consolidateVars, poolVars, engineVars, runtimeVars>>

(***************************************************************************)
(* The DAG engine.                                                         *)
(***************************************************************************)
HasVertex(vs, h) == \E v \in vs : v.hash = h
GetVertex(vs, h) == CHOOSE v \in vs : v.hash = h

\* BullDag::add_vertex: the vertex is stored under its index
add_vertex(vs, v) == {w \in vs : w.hash # v.hash} \cup {v}

\* DagModule::get_reference_block
get_reference_block(vs, target) ==
    IF HasVertex(vs, target) THEN Some(GetVertex(vs, target)) ELSE None

\* DagModule::get_convergence_reference_blocks
get_convergence_reference_blocks(vs, convergence) ==
    {GetVertex(vs, t) : t \in {t \in convergence.ref_hashes : HasVertex(vs, t)}}

\* DagModule::check_valid_convergence
check_valid_convergence(block) == IsSome(block.certificate)

HasPending(p, h) == \E b \in p : b.hash = h
GetPending(p, h) == CHOOSE b \in p : b.hash = h

NoOp == [op |-> "init", hash |-> "", result |-> "Ok"]

\* the quorum members the node starts with and the ones an election gives
GenesisQuorumMembers == "q1"
ElectedQuorumMembers == {"q2"}
VoteDigests == {"d1"}

DagInit ==
    /\ dag_vertices = {}
    /\ dag_edges = {}
    /\ last_confirmed_block = None
    /\ pending_convergence_blocks = {}
    /\ partial_certificate_signatures = [h \in ConvergenceHashes |-> {}]
    /\ quorum_kind \in {"Harvester", "Farmer"}
    /\ events = <<>>
    /\ certs_formed = [h \in ConvergenceHashes |-> 0]
    /\ valid_delivered = {}
    /\ orphan_proposals = {}
    /\ quorum_pending = None
    /\ quorum_members = GenesisQuorumMembers
    /\ votes_pool = {}
    /\ apply_result = None
    /\ last_op = NoOp

\* DagModule::write_genesis
write_genesis(vs, vertex) == add_vertex(vs, vertex)

\* DagModule::write_vertex
write_vertex(vs, vertex) == add_vertex(vs, vertex)

\* DagModule::append_convergence; the result is Ok(Some(block)), Ok(None) or Err
append_convergence(vs, es, lc, pend, convergence) ==
    IF check_valid_convergence(convergence)
    THEN LET ref_blocks == get_convergence_reference_blocks(vs, convergence)
         IN [vertices |-> IF ref_blocks = {} THEN vs ELSE add_vertex(vs, convergence),
             edges |-> es \cup {<<r.hash, convergence.hash>> : r \in ref_blocks},
             last_confirmed |-> Some(convergence),
             pending |-> {b \in pend : b.hash # convergence.hash},
             result |-> IF HasPending(pend, convergence.hash) THEN "OkSome" ELSE "Err"]
    ELSE [vertices |-> vs,
          edges |-> es,
          last_confirmed |-> lc,
          pending |-> IF HasPending(pend, convergence.hash)
                      THEN pend ELSE pend \cup {convergence},
          result |-> "OkNone"]

\* ProposalBlock::get_validation_data: Ok(data) when the block carries a
\* signature, Err otherwise
get_validation_data(proposal) ==
    IF IsSome(proposal.signature)
    THEN Some([signature |-> Unwrap(proposal.signature), from |-> proposal.from,
               payload_hash |-> proposal.hash])
    ELSE None

\* DagModule::verify_signature: the body is todo!()
verify_signature(validation_data) == "Panic"

\* DagModule::check_valid_proposal: matches!(verify_signature(..), Ok(true))
\* when the validation data is there, false otherwise
check_valid_proposal(proposal) ==
    IF IsSome(get_validation_data(proposal))
    THEN LET r == verify_signature(Unwrap(get_validation_data(proposal)))
         IN IF r = "Panic" THEN "Panic" ELSE IF r = "OkTrue" THEN "Valid" ELSE "Invalid"
    ELSE "Invalid"

\* From<ProposalBlock> for Block
ProposalIntoBlock(proposal) == MkBlock(proposal.hash, None)

\* DagModule::append_proposal; the result is Ok, NonExistentSource or Panic
append_proposal(vs, es, proposal) ==
    LET valid == check_valid_proposal(proposal)
        ref_block == get_reference_block(vs, proposal.ref_block)
    IN IF valid = "Panic"
       THEN [vertices |-> vs, edges |-> es, result |-> "Panic"]
       ELSE IF valid = "Valid"
       THEN IF IsSome(ref_block)
            THEN [vertices |-> add_vertex(vs, ProposalIntoBlock(proposal)),
                  edges |-> es \cup {<<Unwrap(ref_block).hash, proposal.hash>>},
                  result |-> "Ok"]
            ELSE [vertices |-> vs, edges |-> es, result |-> "NonExistentSource"]
       ELSE [vertices |-> vs, edges |-> es, result |-> "Ok"]

\* an accumulation that keeps only the newest entry of a block hash
add_signer_to_block_replacing(pcs, block_hash, sig, node_id) ==
    [pcs EXCEPT ![block_hash] = {<<node_id, sig>>}]

\* DagModule::add_signer_to_block: the pair goes into the HashSet of the hash
add_signer_to_block(pcs, block_hash, sig, node_id) ==
    [pcs EXCEPT ![block_hash] = @ \cup {<<node_id, sig>>}]

\* a threshold check that is off by one: the T-th signature is still too few
check_certificate_threshold_reached_late(pcs, block_hash) ==
    ~(Cardinality(pcs[block_hash]) <= HarvesterThreshold)

\* DagModule::check_certificate_threshold_reached
check_certificate_threshold_reached(pcs, block_hash) ==
    ~(Cardinality(pcs[block_hash]) < HarvesterThreshold)

\* ConsensusModule::is_harvester
is_harvester == quorum_kind = "Harvester"

\* what the claims call a valid partial signature of a node for a block hash
IsValidPartial(node_id, sig, block_hash) ==
    /\ node_id \in HarvesterMembers
    /\ sig.signer = node_id
    /\ sig.payload = block_hash

ValidCount(h) == Cardinality({d \in valid_delivered : d[1] = h})

BlockCertificateCreated(cert) == [event |-> "BlockCertificateCreated", cert |-> cert]

(***************************************************************************)
(* Handlers of the node runtime that drive the DAG.                        *)
(***************************************************************************)

\* StateDriver::apply_block: the state of the block's round is applied
apply_block(block) == Some(block.hash)

\* NodeRuntime::handle_genesis_block_received -> DagModule::append_genesis,
\* then state_driver.apply_block
HandleGenesisBlockReceived(genesis) ==
    /\ dag_vertices' = write_genesis(dag_vertices, genesis)
    /\ last_confirmed_block' = Some(genesis)
    /\ last_op' = [op |-> "append_genesis", hash |-> genesis.hash, result |-> "Ok"]
    /\ apply_result' = apply_block(genesis)
    /\ UNCHANGED <<dag_edges, pending_convergence_blocks,
                   partial_certificate_signatures, quorum_kind, events,
                   certs_formed, valid_delivered>>
    /\ UNCHANGED <<orphan_proposals, quorum_pending, quorum_members, votes_pool>>
    /\ UNCHANGED otherThanDag

\* DagModule::append_certificate_to_genesis_block
AppendCertificateToGenesisBlock(block_hash, certificate) ==
    /\ IF HasVertex(dag_vertices, block_hash)
          /\ GetVertex(dag_vertices, block_hash).kind = "Genesis"
       THEN LET genesis == [GetVertex(dag_vertices, block_hash)
                               EXCEPT !.certificate = Some(certificate)]
            IN /\ dag_vertices' = write_genesis(dag_vertices, genesis)
               /\ last_confirmed_block' = Some(genesis)
               /\ last_op' = [op |-> "append_certificate_to_genesis_block",
                              hash |-> block_hash, result |-> "Ok"]
       ELSE /\ UNCHANGED <<dag_vertices, last_confirmed_block>>
            /\ last_op' = [op |-> "append_certificate_to_genesis_block",
                           hash |-> block_hash, result |-> "Err"]
    /\ UNCHANGED <<dag_edges, pending_convergence_blocks,
                   partial_certificate_signatures, quorum_kind, events,
                   certs_formed, valid_delivered>>
    /\ UNCHANGED <<orphan_proposals, quorum_pending, quorum_members, votes_pool>>
    /\ apply_result' = None
    /\ UNCHANGED otherThanDag

\* NodeRuntime::handle_proposal_block_received -> DagModule::append_proposal;
\* an Err of append_proposal is returned as Err, after an Ok the handler
\* reaches its todo!()
HandleProposalBlockReceived(proposal) ==
    /\ LET r == append_proposal(dag_vertices, dag_edges, proposal)
       IN /\ dag_vertices' = r.vertices
          /\ dag_edges' = r.edges
          /\ last_op' = [op |-> "append_proposal", hash |-> proposal.hash,
                         result |-> r.result,
                         handler |-> IF r.result = "NonExistentSource"
                                     THEN "Err" ELSE "Panic"]
    /\ orphan_proposals' =
          IF HasVertex(dag_vertices, proposal.ref_block)
          THEN orphan_proposals
          ELSE orphan_proposals \cup {proposal.hash}
    /\ UNCHANGED <<last_confirmed_block, pending_convergence_blocks,
                   partial_certificate_signatures, quorum_kind, events,
                   certs_formed, valid_delivered>>
    /\ UNCHANGED <<quorum_pending, quorum_members, votes_pool>>
    /\ apply_result' = None
    /\ UNCHANGED otherThanDag

\* DagModule::write_vertex, used to place proposal blocks in the DAG
WriteVertex(block) ==
    /\ dag_vertices' = write_vertex(dag_vertices, block)
    /\ last_op' = [op |-> "write_vertex", hash |-> block.hash, result |-> "Ok"]
    /\ UNCHANGED <<dag_edges, last_confirmed_block, pending_convergence_blocks,
                   partial_certificate_signatures, quorum_kind, events,
                   certs_formed, valid_delivered>>
    /\ UNCHANGED <<orphan_proposals, quorum_pending, quorum_members, votes_pool>>
    /\ apply_result' = None
    /\ UNCHANGED otherThanDag

\* NodeRuntime::handle_convergence_block_received -> DagModule::append_convergence,
\* then state_driver.apply_block unless append_convergence returned an error
HandleConvergenceBlockReceived(block) ==
    /\ IF ~is_harvester
       THEN /\ last_op' = [op |-> "append_convergence", hash |-> block.hash,
                           result |-> "NotHarvester"]
            /\ apply_result' = None
            /\ UNCHANGED <<dag_vertices, dag_edges, last_confirmed_block,
                           pending_convergence_blocks>>
       ELSE LET r == append_convergence(dag_vertices, dag_edges,
                        last_confirmed_block, pending_convergence_blocks, block)
            IN /\ dag_vertices' = r.vertices
               /\ dag_edges' = r.edges
               /\ last_confirmed_block' = r.last_confirmed
               /\ pending_convergence_blocks' = r.pending
               /\ apply_result' = IF r.result = "Err" THEN None
                                  ELSE apply_block(block)
               /\ last_op' = [op |-> "append_convergence", hash |-> block.hash,
                              result |-> r.result]
    /\ UNCHANGED <<partial_certificate_signatures, quorum_kind, events,
                   certs_formed, valid_delivered>>
    /\ UNCHANGED <<orphan_proposals, quorum_pending, quorum_members, votes_pool>>
    /\ UNCHANGED otherThanDag

\* DagModule::append_certificate_to_convergence_block
AppendCertificateToConvergenceBlock(certificate) ==
    /\ IF HasPending(pending_convergence_blocks, certificate.block_hash)
       THEN LET block == [GetPending(pending_convergence_blocks, certificate.block_hash)
                             EXCEPT !.certificate = Some(certificate)]
                r == append_convergence(dag_vertices, dag_edges,
                        last_confirmed_block, pending_convergence_blocks, block)
            IN /\ dag_vertices' = r.vertices
               /\ dag_edges' = r.edges
               /\ last_confirmed_block' = r.last_confirmed
               /\ pending_convergence_blocks' = r.pending
               /\ last_op' = [op |-> "append_certificate_to_convergence_block",
                              hash |-> certificate.block_hash, result |-> r.result]
       ELSE /\ last_op' = [op |-> "append_certificate_to_convergence_block",
                           hash |-> certificate.block_hash, result |-> "Err"]
            /\ UNCHANGED <<dag_vertices, dag_edges, last_confirmed_block,
                           pending_convergence_blocks>>
    /\ UNCHANGED <<partial_certificate_signatures, quorum_kind, events,
                   certs_formed, valid_delivered>>
    /\ UNCHANGED <<orphan_proposals, quorum_pending, quorum_members, votes_pool>>
    /\ apply_result' = None
    /\ UNCHANGED otherThanDag

\* NodeRuntime::form_convergence_certificate: Some(cert) or None for Err
form_convergence_certificate(pend, block_hash, sigs) ==
    IF /\ is_harvester
       /\ verify_batch(sigs, block_hash)
       /\ HasPending(pend, block_hash)
    THEN Some([MkCertificate(sigs, GetPending(pend, block_hash).hash) EXCEPT
                 !.inauguration = quorum_pending])
    ELSE None

\* form_convergence_certificate: sig_engine.set_quorum_members with the
\* inauguration of the certificate, when it has one
set_quorum_members(members, inauguration) ==
    IF IsSome(inauguration) THEN Unwrap(inauguration) ELSE members

\* a handler that lets every partial signature through
partial_signature_unchecked(node_id, sig, block_hash) ==
    TRUE

\* handle_harvester_signature_received: sig_engine.verify(..)? comes first
partial_signature_verifies(node_id, sig, block_hash) ==
    verify(node_id, sig, block_hash)

\* NodeRuntime::handle_harvester_signature_received
HandleHarvesterSignatureReceived(block_hash, node_id, sig) ==
    /\ certs_formed[block_hash] < MaxCertsPerHash
    /\ Len(events) < MaxEvents
    /\ valid_delivered' =
          IF IsValidPartial(node_id, sig, block_hash)
          THEN valid_delivered \cup {<<block_hash, node_id>>}
          ELSE valid_delivered
    /\ IF ~partial_signature_verifies(node_id, sig, block_hash)
       THEN /\ last_op' = [op |-> "harvester_signature", hash |-> block_hash,
                           result |-> "ErrVerify"]
            /\ UNCHANGED <<partial_certificate_signatures, events, certs_formed,
                           quorum_pending, quorum_members>>
       ELSE LET pcs == add_signer_to_block(partial_certificate_signatures,
                                           block_hash, sig, node_id)
                cert == form_convergence_certificate(pending_convergence_blocks,
                                                     block_hash, pcs[block_hash])
            IN /\ partial_certificate_signatures' = pcs
               /\ IF ~check_certificate_threshold_reached(pcs, block_hash)
                  THEN /\ last_op' = [op |-> "harvester_signature",
                                      hash |-> block_hash,
                                      result |-> "ErrThreshold"]
                       /\ UNCHANGED <<events, certs_formed, quorum_pending,
                                      quorum_members>>
                  ELSE IF ~IsSome(cert)
                  THEN /\ last_op' = [op |-> "harvester_signature",
                                      hash |-> block_hash,
                                      result |-> "ErrForm"]
                       /\ UNCHANGED <<events, certs_formed, quorum_pending,
                                      quorum_members>>
                  ELSE /\ events' = Append(events, BlockCertificateCreated(Unwrap(cert)))
                       /\ certs_formed' = [certs_formed EXCEPT ![block_hash] = @ + 1]
                       /\ quorum_members' = set_quorum_members(quorum_members,
                                                               Unwrap(cert).inauguration)
                       /\ quorum_pending' = None
                       /\ last_op' = [op |-> "harvester_signature",
                                      hash |-> block_hash, result |-> "Ok"]
    /\ UNCHANGED <<dag_vertices, dag_edges, last_confirmed_block,
                   pending_convergence_blocks, quorum_kind>>
    /\ UNCHANGED <<orphan_proposals, votes_pool>>
    /\ apply_result' = None
    /\ UNCHANGED otherThanDag

\* NodeRuntime::handle_block_certificate_created: the event is taken and dropped
HandleBlockCertificateCreated ==
    /\ events # <<>>
    /\ Head(events).event = "BlockCertificateCreated"
    /\ events' = Tail(events)
    /\ last_op' = [op |-> "block_certificate_created",
                   hash |-> Head(events).cert.block_hash, result |-> "Ok"]
    /\ UNCHANGED <<dag_vertices, dag_edges, last_confirmed_block,
                   pending_convergence_blocks, partial_certificate_signatures,
                   quorum_kind, certs_formed, valid_delivered>>
    /\ UNCHANGED <<orphan_proposals, quorum_pending, quorum_members, votes_pool>>
    /\ apply_result' = None
    /\ UNCHANGED otherThanDag

\* Event::SignConvergenceBlock
SignConvergenceBlock(block) == [event |-> "SignConvergenceBlock", block |-> block]

\* what ConsensusModule::precheck_convergence_block can return: Ok with the
\* outcome of each of its two checks, or an error
PrecheckOk(first, second) == [ok |-> TRUE, checks |-> <<first, second>>]
PrecheckErr == [ok |-> FALSE, checks |-> <<FALSE, FALSE>>]
PrecheckResults ==
    {PrecheckOk(first, second) : first, second \in BOOLEAN} \cup {PrecheckErr}

\* a handler that asks for a signature as soon as the first check passed
precheck_first_check_only(precheck) ==
    precheck.ok /\ precheck.checks[1]

\* handle_convergence_block_precheck_requested: the arm Ok((true, true))
precheck_passed(precheck) ==
    precheck.ok /\ precheck.checks = <<TRUE, TRUE>>

\* NodeRuntime::handle_convergence_block_precheck_requested
HandleConvergenceBlockPrecheckRequested(block, precheck) ==
    /\ Len(events) < MaxEvents
    /\ IF ~is_harvester
       THEN /\ last_op' = [op |-> "convergence_block_precheck_requested",
                           hash |-> block.hash, result |-> "NotHarvester",
                           precheck |-> precheck]
            /\ UNCHANGED events
       ELSE IF precheck_passed(precheck)
       THEN /\ events' = Append(events, SignConvergenceBlock(block))
            /\ last_op' = [op |-> "convergence_block_precheck_requested",
                           hash |-> block.hash, result |-> "Ok",
                           precheck |-> precheck]
       ELSE /\ last_op' = [op |-> "convergence_block_precheck_requested",
                           hash |-> block.hash, result |-> "Err",
                           precheck |-> precheck]
            /\ UNCHANGED events
    /\ UNCHANGED <<dag_vertices, dag_edges, last_confirmed_block,
                   pending_convergence_blocks, partial_certificate_signatures,
                   quorum_kind, certs_formed, valid_delivered>>
    /\ UNCHANGED <<orphan_proposals, quorum_pending, quorum_members, votes_pool>>
    /\ apply_result' = None
    /\ UNCHANGED otherThanDag

\* NodeRuntime::handle_sign_convergence_block: the partial signature of this
\* node over the hash of the block
HandleSignConvergenceBlock ==
    /\ events # <<>>
    /\ Head(events).event = "SignConvergenceBlock"
    /\ events' = Tail(events)
    /\ last_op' = [op |-> "sign_convergence_block",
                   hash |-> Head(events).block.hash,
                   result |-> IF is_harvester THEN "Ok" ELSE "NotHarvester",
                   sig |-> IF is_harvester
                           THEN Some(Sign(1, Head(events).block.hash)) ELSE None]
    /\ UNCHANGED <<dag_vertices, dag_edges, last_confirmed_block,
                   pending_convergence_blocks, partial_certificate_signatures,
                   quorum_kind, certs_formed, valid_delivered>>
    /\ UNCHANGED <<orphan_proposals, quorum_pending, quorum_members, votes_pool>>
    /\ apply_result' = None
    /\ UNCHANGED otherThanDag

\* a quorum election has ended: the elected members wait in quorum_pending
HandleQuorumElected(elected) ==
    /\ quorum_pending = None
    /\ quorum_members # elected
    /\ quorum_pending' = Some(elected)
    /\ last_op' = [op |-> "quorum_elected", hash |-> "", result |-> "Ok"]
    /\ UNCHANGED <<dag_vertices, dag_edges, last_confirmed_block,
                   pending_convergence_blocks, partial_certificate_signatures,
                   quorum_kind, events, certs_formed, valid_delivered,
                   orphan_proposals, quorum_members, votes_pool>>
    /\ apply_result' = None
    /\ UNCHANGED otherThanDag

\* NodeRuntime::handle_vote_received: the vote on a transaction waits in the
\* vote pool of the harvester
HandleVoteReceived(digest) ==
    /\ digest \notin votes_pool
    /\ votes_pool' = votes_pool \cup {digest}
    /\ last_op' = [op |-> "vote_received", hash |-> digest, result |-> "Ok"]
    /\ UNCHANGED <<dag_vertices, dag_edges, last_confirmed_block,
                   pending_convergence_blocks, partial_certificate_signatures,
                   quorum_kind, events, certs_formed, valid_delivered,
                   orphan_proposals, quorum_pending, quorum_members>>
    /\ apply_result' = None
    /\ UNCHANGED otherThanDag

\* the votes on a transaction reached the farmer threshold: the transaction
\* is certified and leaves the vote pool
CertifyTransaction(digest) ==
    /\ digest \in votes_pool
    /\ votes_pool' = votes_pool \ {digest}
    /\ last_op' = [op |-> "transaction_certified", hash |-> digest,
                   result |-> "Ok"]
    /\ UNCHANGED <<dag_vertices, dag_edges, last_confirmed_block,
                   pending_convergence_blocks, partial_certificate_signatures,
                   quorum_kind, events, certs_formed, valid_delivered,
                   orphan_proposals, quorum_pending, quorum_members>>
    /\ apply_result' = None
    /\ UNCHANGED otherThanDag

(***************************************************************************)
(* The state module: a confirmed round is turned into account updates.     *)
(***************************************************************************)
MaxRounds == 2

Addresses == {"a", "b", "m"}
Digests == {"d1", "d2", "d3"}

\* the transactions, by digest: Txn::sender_address, receiver_address, amount,
\* nonce, validators (those that voted true), and the two fee shares
TxnOf(d) ==
    CASE d = "d1" -> [id |-> "d1", sender |-> "a", receiver |-> "b", amount |-> 2,
                      nonce |-> 1, validators |-> {"m"},
                      proposer_fee_share |-> 1, validator_fee_share |-> 2]
      [] d = "d2" -> [id |-> "d2", sender |-> "a", receiver |-> "b", amount |-> 3,
                      nonce |-> 2, validators |-> {"m", "b"},
                      proposer_fee_share |-> 1, validator_fee_share |-> 2]
      [] OTHER    -> [id |-> "d3", sender |-> "b", receiver |-> "a", amount |-> 1,
                      nonce |-> 1, validators |-> {},
                      proposer_fee_share |-> 0, validator_fee_share |-> 0]

\* ProposalBlock.txns and ProposalBlock.from, fixed by the hash of the block
ProposalTxns(h) == IF h = "p1" THEN {"d1", "d2"} ELSE {"d2", "d3"}

MkProposal(h) == [hash |-> h, txns |-> ProposalTxns(h), from |-> "m"]

\* the maps from proposal hash to retained digests a convergence block can carry
RetainedMaps ==
    {r \in UNION {[D -> SUBSET Digests] : D \in SUBSET ProposalHashes} :
        \A h \in DOMAIN r : r[h] \subseteq ProposalTxns(h)}

\* RoundBlocks: the convergence block (its txns map) and its source proposals
Rounds ==
    {[txns |-> r, proposals |-> {MkProposal(h) : h \in P}] :
        r \in RetainedMaps, P \in (SUBSET ProposalHashes) \ {{}}}

RECURSIVE SumOf(_, _)
\* the sum of f[x] over the finite set S
SumOf(f, S) ==
    IF S = {} THEN 0
    ELSE LET x == CHOOSE y \in S : TRUE IN f[x] + SumOf(f, S \ {x})

StateUpdate(address, amount, nonce, digest, update_account) ==
    [address |-> address, amount |-> amount, nonce |-> nonce,
     digest |-> digest, update_account |-> update_account]

\* TransactionDigest::default
DefaultDigest == ""

\* FromTxn for IntoUpdates: the sender update and the receiver update
IntoUpdates(txn) ==
    {StateUpdate(txn.sender, txn.amount, Some(txn.nonce), txn.id, "Sender"),
     StateUpdate(txn.receiver, txn.amount, None, txn.id, "Receiver")}

\* FromTxn for HashSet<StateUpdate>: the division panics without validators
ValidatorFeesPanics(txn) == Cardinality(txn.validators) = 0

ValidatorFees(txn) ==
    LET validator_share == txn.validator_fee_share \div Cardinality(txn.validators)
    IN {StateUpdate(k, validator_share, None, DefaultDigest, "Fee") :
           k \in txn.validators}

\* FromBlock for HashSet<StateUpdate>
FromBlock(block) ==
    LET proposer_fees ==
            SumOf([d \in block.txns |-> TxnOf(d).proposer_fee_share], block.txns)
    IN UNION {IntoUpdates(TxnOf(d)) \cup ValidatorFees(TxnOf(d)) : d \in block.txns}
       \cup {StateUpdate(block.from, proposer_fees, None, DefaultDigest, "Fee")}

\* StateModule::get_update_list, the filtering of the proposals
filtered_proposals(round) ==
    {IF block.hash \in DOMAIN round.txns
     THEN [block EXCEPT !.txns = {d \in @ : d \in round.txns[block.hash]}]
     ELSE block : block \in round.proposals}

\* StateModule::get_update_list
get_update_list(round) ==
    UNION {FromBlock(block) : block \in filtered_proposals(round)}

\* From<StateUpdate> for UpdateArgs
UpdateArgs(item) ==
    CASE item.update_account = "Sender" ->
            [address |-> item.address, nonce |-> item.nonce, credits |-> None,
             debits |-> Some(item.amount),
             digests |-> Some({<<"sent", item.digest>>})]
      [] item.update_account = "Receiver" ->
            [address |-> item.address, nonce |-> item.nonce,
             credits |-> Some(item.amount), debits |-> None,
             digests |-> Some({<<"recv", item.digest>>})]
      [] item.update_account = "Claim" ->
            [address |-> item.address, nonce |-> item.nonce, credits |-> None,
             debits |-> None, digests |-> Some({<<"stake", item.digest>>})]
      [] OTHER ->
            [address |-> item.address, nonce |-> item.nonce,
             credits |-> Some(item.amount), debits |-> None, digests |-> None]

\* get_update_args
get_update_args(updates) == {UpdateArgs(u) : u \in updates}

\* Option<u128>::max: None is below every Some
OptMaxOf(S) ==
    IF \A u \in S : u.nonce = None THEN None
    ELSE Some(CHOOSE n \in {Unwrap(u.nonce) : u \in {v \in S : IsSome(v.nonce)}} :
                 \A u \in S : IsSome(u.nonce) => Unwrap(u.nonce) <= n)

\* the sum of the amounts that are Some, or None when all are None
OptSumOf(f, S) ==
    IF \A u \in S : f[u] = None THEN None
    ELSE Some(SumOf([u \in S |-> IF IsSome(f[u]) THEN Unwrap(f[u]) ELSE 0], S))

\* consolidate_update_args for one address: the update the HashSet iteration
\* meets first is inserted (or_insert) and the others are folded into it
\* (and_modify); first_has_digests tells whether that first one has digests
consolidate_for(U, first_has_digests) ==
    [address |-> (CHOOSE u \in U : TRUE).address,
     nonce |-> OptMaxOf(U),
     credits |-> OptSumOf([u \in U |-> u.credits], U),
     debits |-> OptSumOf([u \in U |-> u.debits], U),
     digests |-> IF ~first_has_digests THEN None
                 ELSE Some(UNION {Unwrap(u.digests) :
                                     u \in {v \in U : IsSome(v.digests)}})]

\* consolidate_update_args: the maps it can return, one per iteration order
consolidate_update_args(updates) ==
    LET touched == {u.address : u \in updates}
        of(a) == {u \in updates : u.address = a}
        firsts == {f \in [touched -> BOOLEAN] :
                      \A a \in touched : \E u \in of(a) : IsSome(u.digests) = f[a]}
    IN {[a \in touched |-> consolidate_for(of(a), f[a])] : f \in firsts}

\* VrrbDb::update_account: the deltas of the update are applied to the account
update_account(account, args) ==
    [credits |-> account.credits
                 + (IF IsSome(args.credits) THEN Unwrap(args.credits) ELSE 0),
     debits |-> account.debits
                + (IF IsSome(args.debits) THEN Unwrap(args.debits) ELSE 0),
     nonce |-> IF IsSome(args.nonce) THEN Unwrap(args.nonce) ELSE account.nonce,
     digests |-> account.digests
                 \cup (IF IsSome(args.digests) THEN Unwrap(args.digests) ELSE {})]

\* the funds the accounts start with
InitialCredits == {0, 4}

NewAccount(credits) ==
    [credits |-> credits, debits |-> 0, nonce |-> 0, digests |-> {}]

StateInit ==
    /\ \E c \in InitialCredits :
          /\ accounts = [a \in Addresses |->
                            NewAccount(IF a = "a" THEN c ELSE IF a = "b" THEN 1 ELSE 0)]
          /\ ledger_credits = [a \in Addresses |->
                                  IF a = "a" THEN c ELSE IF a = "b" THEN 1 ELSE 0]
    /\ txn_store = {}
    /\ ledger_debits = [a \in Addresses |-> 0]
    /\ rounds_applied = 0
    /\ last_round = None
    /\ last_updates = {}
    /\ state_result = "Ok"
    /\ state_op = "new"
    /\ failed_updates = {}

\* the state module at rest, for the specifications of the other subsystems
StateIdle ==
    /\ accounts = [a \in Addresses |-> NewAccount(0)]
    /\ txn_store = {}
    /\ ledger_credits = [a \in Addresses |-> 0]
    /\ ledger_debits = [a \in Addresses |-> 0]
    /\ rounds_applied = 0
    /\ last_round = None
    /\ last_updates = {}
    /\ state_result = "Ok"
    /\ state_op = "new"
    /\ failed_updates = {}

\* StateModule::update_state for a block hash that is not a convergence
\* vertex of the DAG
UpdateStateNotFound ==
    /\ state_result' = "Err"
    /\ state_op' = "update_state"
    /\ failed_updates' = {}
    /\ UNCHANGED <<accounts, txn_store, ledger_credits, ledger_debits,
                   rounds_applied, last_round, last_updates>>
    /\ UNCHANGED otherThanState

\* StateModule::update_state for the round of a convergence block of the DAG
UpdateState(round) ==
    /\ rounds_applied < MaxRounds
    /\ IF \E block \in filtered_proposals(round) :
             \E d \in block.txns : ValidatorFeesPanics(TxnOf(d))
       THEN /\ state_result' = "Panic"
            /\ failed_updates' = {}
            /\ UNCHANGED <<accounts, txn_store, rounds_applied, last_round,
                           last_updates>>
       ELSE \E consolidated \in
                  consolidate_update_args(get_update_args(get_update_list(round))) :
            \E failing \in SUBSET (DOMAIN consolidated) :
               \* the result of db.update_account is dropped (let _ =): an
               \* update that fails leaves its account as it was and the
               \* loop goes on
               /\ accounts' = [a \in Addresses |->
                                  IF a \in DOMAIN consolidated /\ a \notin failing
                                  THEN update_account(accounts[a], consolidated[a])
                                  ELSE accounts[a]]
               /\ failed_updates' = failing
               /\ txn_store' = txn_store
                     \cup UNION {block.txns : block \in filtered_proposals(round)}
               /\ rounds_applied' = rounds_applied + 1
               /\ last_round' = Some(round)
               /\ last_updates' = get_update_list(round)
               /\ state_result' = "Ok"
    /\ state_op' = "update_state"
    /\ UNCHANGED <<ledger_credits, ledger_debits>>
    /\ UNCHANGED otherThanState

\* the reward of the block that is dumped
RewardOf == [receivable |-> "m", amount |-> 1]

\* NetworkState::dump: the transactions and the reward of a block are
\* written to the ledger
Dump(txns, reward) ==
    /\ rounds_applied < MaxRounds
    /\ ledger_credits' =
          [a \in Addresses |->
              ledger_credits[a]
              + SumOf([d \in txns |-> IF TxnOf(d).receiver = a
                                      THEN TxnOf(d).amount ELSE 0], txns)
              + (IF reward.receivable = a THEN reward.amount ELSE 0)]
    /\ ledger_debits' =
          [a \in Addresses |->
              ledger_debits[a]
              + SumOf([d \in txns |-> IF TxnOf(d).sender = a
                                      THEN TxnOf(d).amount ELSE 0], txns)]
    /\ rounds_applied' = rounds_applied + 1
    /\ state_op' = "dump"
    /\ UNCHANGED <<accounts, txn_store, last_round, last_updates, state_result,
                   failed_updates>>
    /\ UNCHANGED otherThanState

\* NetworkState::get_balance
get_balance(address) ==
    IF ledger_credits[address] >= ledger_debits[address]
    THEN ledger_credits[address] - ledger_debits[address]
    ELSE 0


(***************************************************************************)
(* The mempool: a left_right pair of Mempool copies, one writer, readers.  *)
(***************************************************************************)
NumReaders == 1
MaxWrites == 3

Readers == 1..NumReaders
MempoolTxns == {"t1", "t2"}

\* TxnValidator::validate against the state: t1 passes, t2 does not
TxnIsValid(t) == t = "t1"

\* Mempool::default
EmptyMempool == [pending |-> {}, validated |-> {}, rejected |-> {}]

MempoolOpAdd(t, status) == [kind |-> "Add", id |-> t, status |-> status]
MempoolOpRemove(t, status) == [kind |-> "Remove", id |-> t, status |-> status]

\* Absorb::absorb_first and Absorb::absorb_second: the same change to a copy
absorb(m, op) ==
    IF op.kind = "Add"
    THEN CASE op.status = "Pending" -> [m EXCEPT !.pending = @ \cup {op.id}]
           [] op.status = "Validated" -> [m EXCEPT !.validated = @ \cup {op.id}]
           [] OTHER -> [m EXCEPT !.rejected = @ \cup {op.id}]
    ELSE CASE op.status = "Pending" -> [m EXCEPT !.pending = @ \ {op.id}]
           [] op.status = "Validated" -> [m EXCEPT !.validated = @ \ {op.id}]
           [] OTHER -> [m EXCEPT !.rejected = @ \ {op.id}]

RECURSIVE absorb_all(_, _)
absorb_all(m, ops) ==
    IF ops = <<>> THEN m ELSE absorb_all(absorb(m, Head(ops)), Tail(ops))

\* Absorb::sync_with
sync_with(first) == first

lr_write_idx == 1 - lr_read_idx

\* WriteHandle::append as used by the mempool: before the first publish the
\* operations go straight to the write copy, afterwards to the oplog
AppendOps(ops) ==
    IF lr_first
    THEN /\ lr_copies' = [lr_copies EXCEPT
                             ![lr_write_idx] = absorb_all(@, ops)]
         /\ UNCHANGED lr_oplog
    ELSE /\ lr_oplog' = lr_oplog \o ops
         /\ UNCHANGED lr_copies

\* add_txn_batch stages the whole batch and publishes once, after the loop
publish_every_append(todo) == TRUE

publish_after_append(todo) == todo = {}

\* the change a completed operation makes to the mempool
apply_operation(m, op) ==
    CASE op.name = "add_txn_batch" -> [m EXCEPT !.pending = @ \cup op.batch]
      [] op.name = "remove_txn" -> [m EXCEPT !.pending = @ \ op.batch]
      [] op.name = "validate_all" ->
            [pending |-> m.pending \ op.batch,
             validated |-> m.validated \cup {t \in op.batch : TxnIsValid(t)},
             rejected |-> m.rejected \cup {t \in op.batch : ~TxnIsValid(t)}]
      [] OTHER -> m

NoOperation == [name |-> "none", batch |-> {}]

NoView == [pending |-> {}, validated |-> {}, rejected |-> {}]

\* LeftRightMemPoolDB::new
MempoolInit ==
    /\ lr_copies = [i \in {0, 1} |-> EmptyMempool]
    /\ lr_read_idx = 0
    /\ lr_oplog = <<>>
    /\ lr_swap_index = 0
    /\ lr_first = TRUE
    /\ lr_second = TRUE
    /\ lr_pinned = [r \in Readers |-> FALSE]
    /\ wr_pc = "idle"
    /\ wr_todo = {}
    /\ wr_op = NoOperation
    /\ wr_absorb_i = 1
    /\ writes_done = 0
    /\ rd_pc = [r \in Readers |-> "idle"]
    /\ rd_ptr = [r \in Readers |-> 0]
    /\ rd_view = [r \in Readers |-> NoView]
    /\ mp_logical = EmptyMempool
    /\ rd_candidates = [r \in Readers |-> {}]

MempoolIdle == MempoolInit

lrVars == <<lr_copies, lr_read_idx, lr_oplog, lr_swap_index, lr_first,
            lr_second, lr_pinned>>
readerVars == <<rd_pc, rd_ptr, rd_view, rd_candidates>>

\* LeftRightMemPoolDB::add_txn_batch is called
AddTxnBatchStart(batch) ==
    /\ wr_pc = "idle"
    /\ writes_done < MaxWrites
    /\ wr_op' = [name |-> "add_txn_batch", batch |-> batch]
    /\ wr_todo' = batch
    /\ wr_pc' = IF batch = {} THEN "wait" ELSE "append"
    /\ UNCHANGED <<lrVars, readerVars, wr_absorb_i, writes_done, mp_logical>>
    /\ UNCHANGED otherThanMempool

\* LeftRightMemPoolDB::add_txn_batch: one iteration of the for_each
AddTxnBatchAppend ==
    /\ wr_pc = "append"
    /\ \E t \in wr_todo :
          /\ AppendOps(<<MempoolOpAdd(t, "Pending")>>)
          /\ wr_todo' = wr_todo \ {t}
          /\ wr_pc' = IF publish_after_append(wr_todo \ {t}) THEN "wait" ELSE "append"
    /\ UNCHANGED <<lr_read_idx, lr_swap_index, lr_first, lr_second, lr_pinned,
                   readerVars, wr_op, wr_absorb_i, writes_done, mp_logical>>
    /\ UNCHANGED otherThanMempool

\* LeftRightMemPoolDB::remove_txn up to its publish
RemoveTxn(t) ==
    /\ wr_pc = "idle"
    /\ writes_done < MaxWrites
    /\ AppendOps(<<MempoolOpRemove(t, "Pending")>>)
    /\ wr_op' = [name |-> "remove_txn", batch |-> {t}]
    /\ wr_todo' = {}
    /\ wr_pc' = "wait"
    /\ UNCHANGED <<lr_read_idx, lr_swap_index, lr_first, lr_second, lr_pinned,
                   readerVars, wr_absorb_i, writes_done, mp_logical>>
    /\ UNCHANGED otherThanMempool

\* LeftRightMemPoolDB::validate_all is called: it takes its snapshot with get()
ValidateAllStart ==
    /\ wr_pc = "idle"
    /\ writes_done < MaxWrites
    /\ LET map == lr_copies[lr_read_idx]
       IN /\ wr_op' = [name |-> "validate_all", batch |-> map.pending]
          /\ wr_todo' = map.pending
          /\ wr_pc' = IF map.pending = {} THEN "wait" ELSE "validate"
    /\ UNCHANGED <<lrVars, readerVars, wr_absorb_i, writes_done, mp_logical>>
    /\ UNCHANGED otherThanMempool

\* LeftRightMemPoolDB::validate_all: one pending record is validated and the
\* two operations for it are staged
ValidateAllNext ==
    /\ wr_pc = "validate"
    /\ \E t \in wr_todo :
          /\ AppendOps(<<MempoolOpAdd(t, IF TxnIsValid(t) THEN "Validated"
                                                         ELSE "Rejected"),
                         MempoolOpRemove(t, "Pending")>>)
          /\ wr_todo' = wr_todo \ {t}
          /\ wr_pc' = IF wr_todo \ {t} = {} THEN "wait" ELSE "validate"
    /\ UNCHANGED <<lr_read_idx, lr_swap_index, lr_first, lr_second, lr_pinned,
                   readerVars, wr_op, wr_absorb_i, writes_done, mp_logical>>
    /\ UNCHANGED otherThanMempool

\* LeftRightMemPoolDB::publish -> WriteHandle::publish: the readers that were
\* in the write copy have left; the copy is brought up to the read copy
PublishWait ==
    /\ wr_pc = "wait"
    /\ \A r \in Readers : ~lr_pinned[r]
    /\ IF lr_first
       THEN /\ wr_pc' = "swap"
            /\ UNCHANGED <<lr_copies, lr_second, wr_absorb_i>>
       ELSE /\ lr_copies' = IF lr_second
                            THEN [lr_copies EXCEPT ![lr_write_idx] =
                                     sync_with(lr_copies[lr_read_idx])]
                            ELSE lr_copies
            /\ lr_second' = FALSE
            /\ wr_absorb_i' = 1
            /\ wr_pc' = IF lr_oplog = <<>> THEN "swap" ELSE "absorb"
    /\ UNCHANGED <<lr_read_idx, lr_oplog, lr_swap_index, lr_first, lr_pinned,
                   readerVars, wr_todo, wr_op, writes_done, mp_logical>>
    /\ UNCHANGED otherThanMempool

\* WriteHandle::publish: one operation of the oplog is applied to the write copy
PublishAbsorb ==
    /\ wr_pc = "absorb"
    /\ lr_copies' = [lr_copies EXCEPT
                        ![lr_write_idx] = absorb(@, lr_oplog[wr_absorb_i])]
    /\ wr_absorb_i' = wr_absorb_i + 1
    /\ wr_pc' = IF wr_absorb_i = Len(lr_oplog) THEN "swap" ELSE "absorb"
    /\ UNCHANGED <<lr_read_idx, lr_oplog, lr_swap_index, lr_first, lr_second,
                   lr_pinned, readerVars, wr_todo, wr_op, writes_done, mp_logical>>
    /\ UNCHANGED otherThanMempool

\* WriteHandle::publish: the pointer swap; the operation returns after it
PublishSwap ==
    /\ wr_pc = "swap"
    /\ lr_read_idx' = lr_write_idx
    /\ lr_oplog' = SubSeq(lr_oplog, lr_swap_index + 1, Len(lr_oplog))
    /\ lr_swap_index' = Len(lr_oplog) - lr_swap_index
    /\ lr_first' = FALSE
    /\ lr_pinned' = [r \in Readers |-> rd_pc[r] # "idle"]
    /\ IF wr_todo = {}
       THEN /\ mp_logical' = apply_operation(mp_logical, wr_op)
            /\ rd_candidates' =
                  [r \in Readers |->
                      IF rd_pc[r] # "idle"
                      THEN rd_candidates[r] \cup {apply_operation(mp_logical, wr_op)}
                      ELSE rd_candidates[r]]
            /\ writes_done' = writes_done + 1
            /\ wr_op' = NoOperation
            /\ wr_pc' = "idle"
       ELSE /\ wr_pc' = "append"
            /\ UNCHANGED <<mp_logical, rd_candidates, writes_done, wr_op>>
    /\ UNCHANGED <<lr_copies, lr_second, wr_todo, wr_absorb_i, rd_pc, rd_ptr,
                   rd_view>>
    /\ UNCHANGED otherThanMempool

\* LeftRightMemPoolDB::get: ReadHandle::enter
ReaderEnter(r) ==
    /\ rd_pc[r] = "idle"
    /\ rd_pc' = [rd_pc EXCEPT ![r] = "pending"]
    /\ rd_ptr' = [rd_ptr EXCEPT ![r] = lr_read_idx]
    /\ rd_view' = [rd_view EXCEPT ![r] = NoView]
    /\ rd_candidates' = [rd_candidates EXCEPT ![r] = {mp_logical}]
    /\ UNCHANGED <<lrVars, wr_pc, wr_todo, wr_op, wr_absorb_i, writes_done,
                   mp_logical>>
    /\ UNCHANGED otherThanMempool

\* LeftRightMemPoolDB::get: guard.clone(), one field of the Mempool at a time
ReaderClone(r) ==
    /\ rd_pc[r] \in {"pending", "validated", "rejected"}
    /\ rd_view' = [rd_view EXCEPT
                      ![r] = CASE rd_pc[r] = "pending" ->
                                    [@ EXCEPT !.pending = lr_copies[rd_ptr[r]].pending]
                               [] rd_pc[r] = "validated" ->
                                    [@ EXCEPT !.validated = lr_copies[rd_ptr[r]].validated]
                               [] OTHER ->
                                    [@ EXCEPT !.rejected = lr_copies[rd_ptr[r]].rejected]]
    /\ rd_pc' = [rd_pc EXCEPT
                    ![r] = CASE rd_pc[r] = "pending" -> "validated"
                             [] rd_pc[r] = "validated" -> "rejected"
                             [] OTHER -> "done"]
    /\ UNCHANGED <<lrVars, wr_pc, wr_todo, wr_op, wr_absorb_i, writes_done,
                   mp_logical, rd_ptr, rd_candidates>>
    /\ UNCHANGED otherThanMempool

\* LeftRightMemPoolDB::get returns: the guard is dropped
ReaderLeave(r) ==
    /\ rd_pc[r] = "done"
    /\ rd_pc' = [rd_pc EXCEPT ![r] = "idle"]
    /\ lr_pinned' = [lr_pinned EXCEPT ![r] = FALSE]
    /\ UNCHANGED <<lr_copies, lr_read_idx, lr_oplog, lr_swap_index, lr_first,
                   lr_second, wr_pc, wr_todo, wr_op, wr_absorb_i, writes_done,
                   mp_logical, rd_ptr, rd_view, rd_candidates>>
    /\ UNCHANGED otherThanMempool

(***************************************************************************)
(* The event router and the shutdown of the node.                          *)
(***************************************************************************)
NumSubscribers == 2
TopicBuffer == 2
MaxPublished == 2

Subscribers == 1..NumSubscribers
Topics == {"control", "json-rpc-api-control"}
NoTopic == "none"

DirectedEvent(topic, event) == <<topic, event>>

\* tokio broadcast Sender::send as seen by one receiver: when the buffer is
\* full the oldest event is dropped for a receiver that lags
ChannelPush(q, event) ==
    IF Len(q) < TopicBuffer THEN Append(q, event) ELSE Append(Tail(q), event)

\* EventRouter::fan_out_event: the queues after the event went to the topic
fan_out_event(queues, event, topic) ==
    IF topic \in rt_topics
    THEN [sub \in Subscribers |->
             IF rt_subs[sub] = topic THEN ChannelPush(queues[sub], event)
             ELSE queues[sub]]
    ELSE queues

\* EventRouter::new, and Node::new before the router task is spawned
RouterInit ==
    /\ rt_topics = {}
    /\ rt_subs = [sub \in Subscribers |-> NoTopic]
    /\ rt_queue = [sub \in Subscribers |-> <<>>]
    /\ rt_received = [sub \in Subscribers |-> <<>>]
    /\ rt_inbox = <<>>
    /\ rt_status = "setup"
    /\ node_pc = "running"
    /\ rt_published = 0

RouterIdle == RouterInit

\* EventRouter::add_topic
AddTopic(topic) ==
    /\ rt_status = "setup"
    /\ topic \notin rt_topics
    /\ rt_topics' = rt_topics \cup {topic}
    /\ UNCHANGED <<rt_subs, rt_queue, rt_received, rt_inbox, rt_status, node_pc,
                   rt_published>>
    /\ UNCHANGED otherThanRouter

\* EventRouter::subscribe: a receiver for a topic that has a channel
Subscribe(sub, topic) ==
    /\ rt_status = "setup"
    /\ rt_subs[sub] = NoTopic
    /\ topic \in rt_topics
    /\ rt_subs' = [rt_subs EXCEPT ![sub] = topic]
    /\ UNCHANGED <<rt_topics, rt_queue, rt_received, rt_inbox, rt_status,
                   node_pc, rt_published>>
    /\ UNCHANGED otherThanRouter

\* the router task is spawned: EventRouter::start begins to receive
RouterStart ==
    /\ rt_status = "setup"
    /\ rt_status' = "running"
    /\ UNCHANGED <<rt_topics, rt_subs, rt_queue, rt_received, rt_inbox, node_pc,
                   rt_published>>
    /\ UNCHANGED otherThanRouter

\* a module publishes an event on a topic
PublishEvent(topic) ==
    /\ rt_status # "stopped"
    /\ rt_published < MaxPublished
    /\ rt_inbox' = Append(rt_inbox, DirectedEvent(topic, "Event"))
    /\ rt_published' = rt_published + 1
    /\ UNCHANGED <<rt_topics, rt_subs, rt_queue, rt_received, rt_status, node_pc>>
    /\ UNCHANGED otherThanRouter

\* Node::wait: the control signal arrived, Stop is sent to the router
NodeWaitSendStop ==
    /\ node_pc = "running"
    /\ rt_status # "setup"
    /\ IF rt_status = "stopped"
       THEN /\ node_pc' = "error"
            /\ UNCHANGED rt_inbox
       ELSE /\ rt_inbox' = Append(rt_inbox, DirectedEvent("control", "Stop"))
            /\ node_pc' = "stop_sent"
    /\ UNCHANGED <<rt_topics, rt_subs, rt_queue, rt_received, rt_status,
                   rt_published>>
    /\ UNCHANGED otherThanRouter

\* Node::wait: the second Stop, for the json-rpc-api-control topic; the send
\* fails when the router has already returned and dropped its receiver
NodeWaitSendStopJsonRpc ==
    /\ node_pc = "stop_sent"
    /\ IF rt_status = "stopped"
       THEN /\ node_pc' = "error"
            /\ UNCHANGED rt_inbox
       ELSE /\ rt_inbox' = Append(rt_inbox,
                                  DirectedEvent("json-rpc-api-control", "Stop"))
            /\ node_pc' = "awaiting"
    /\ UNCHANGED <<rt_topics, rt_subs, rt_queue, rt_received, rt_status,
                   rt_published>>
    /\ UNCHANGED otherThanRouter

\* a component task has left its loop: its handler returned Stopped on Stop
TaskExited(sub) ==
    \E i \in DOMAIN rt_received[sub] : rt_received[sub][i] = "Stop"

\* Node::wait: every component handle and then the router handle has been
\* awaited; running_status becomes Stopped and wait returns Ok
NodeWaitJoin ==
    /\ node_pc = "awaiting"
    /\ \A sub \in Subscribers : rt_subs[sub] # NoTopic => TaskExited(sub)
    /\ rt_status = "stopped"
    /\ node_pc' = "stopped"
    /\ UNCHANGED <<rt_topics, rt_subs, rt_queue, rt_received, rt_inbox, rt_status,
                   rt_published>>
    /\ UNCHANGED otherThanRouter

\* EventRouter::start: one iteration of the receive loop
RouterReceive ==
    /\ rt_status = "running"
    /\ rt_inbox # <<>>
    /\ LET topic == Head(rt_inbox)[1]
           event == Head(rt_inbox)[2]
       IN /\ rt_queue' = fan_out_event(rt_queue, event, topic)
          /\ rt_status' = IF event = "Stop" THEN "stopped" ELSE "running"
    /\ rt_inbox' = Tail(rt_inbox)
    /\ UNCHANGED <<rt_topics, rt_subs, rt_received, node_pc, rt_published>>
    /\ UNCHANGED otherThanRouter

\* a subscriber takes the next event from its receiver
SubscriberReceive(sub) ==
    /\ rt_queue[sub] # <<>>
    /\ rt_received' = [rt_received EXCEPT ![sub] = Append(@, Head(rt_queue[sub]))]
    /\ rt_queue' = [rt_queue EXCEPT ![sub] = Tail(@)]
    /\ UNCHANGED <<rt_topics, rt_subs, rt_inbox, rt_status, node_pc, rt_published>>
    /\ UNCHANGED otherThanRouter

(***************************************************************************)
(* The DKG exchange of a quorum, as the runtime drives it                   *)
(* (run_dkg_process): every member generates its Part, every member        *)
(* handles every Part and acknowledges it, every member is given every     *)
(* Ack, every member hands its acks to the key generation, and then every  *)
(* member generates its keyset.  The key generation itself is the          *)
(* synchronous key generation of the threshold library: a Part is complete *)
(* at a node once more than DkgThreshold acks for it were handled there,   *)
(* and the public-key set is the combination of the complete Parts.        *)
(***************************************************************************)
NumDkgNodes == 3
DkgThreshold == 1

DkgNodes == 1..NumDkgNodes
PartSeeds == {"r1", "r2"}

\* the orders in which a HashMap over the members can be iterated
IterationOrders ==
    {o \in [1..NumDkgNodes -> DkgNodes] :
        \A i, j \in 1..NumDkgNodes : i # j => o[i] # o[j]}

\* a Part: the commitment of the sender to its random polynomial
MkPart(sender, seed) == [sender |-> sender, commitment |-> seed]

\* an Ack as the runtime passes it on: (receiver_id, sender_id, ack)
MkAck(receiver, sender) == <<receiver, sender>>

NewDkgState ==
    [part_message_store |-> {}, ack_message_store |-> {}, sync_key_gen |-> {}]

\* generate_partial_commitment_message: the Part of the node, kept in its
\* own part-message store
generate_partial_commitment_message(st, node, seed) ==
    [st EXCEPT !.part_message_store = @ \cup {MkPart(node, seed)}]

\* handle_part_commitment_created: the Part is recorded and acknowledged; a
\* Part that this node has acknowledged before is rejected
handle_part_commitment_created(st, node, part) ==
    IF MkAck(node, part.sender) \in st.ack_message_store
    THEN [ok |-> FALSE, err |-> "PartMsgAlreadyAcknowledge", state |-> st]
    ELSE [ok |-> TRUE, err |-> "",
          state |-> [st EXCEPT
                       !.part_message_store = @ \cup {part},
                       !.ack_message_store = @ \cup {MkAck(node, part.sender)}]]

\* handle_part_commitment_acknowledged: the Ack goes to the ack-message store
handle_part_commitment_acknowledged(st, ack) ==
    [st EXCEPT !.ack_message_store = @ \cup {ack}]

\* handle_all_ack_messages: every stored Ack of a recorded Part is handed to
\* the key generation
handle_all_ack_messages(st) ==
    IF st.part_message_store = {}
    THEN [ok |-> FALSE, err |-> "NotEnoughPartMsgsReceived", state |-> st]
    ELSE IF st.ack_message_store = {}
    THEN [ok |-> FALSE, err |-> "NotEnoughAckMsgsReceived", state |-> st]
    ELSE [ok |-> TRUE, err |-> "",
          state |-> [st EXCEPT !.sync_key_gen =
                       {a \in st.ack_message_store :
                           \E p \in st.part_message_store : p.sender = a[2]}]]

\* the Parts that are complete at a node: more than DkgThreshold handled acks
CompleteParts(st) ==
    {p \in st.part_message_store :
        Cardinality({a \in st.sync_key_gen : a[2] = p.sender}) > DkgThreshold}

\* the public-key set: the combination of the commitments of the complete
\* Parts
PublicKeySetOf(parts) == [commitments |-> parts]

\* the quorum id: a digest of the quorum kind and the public-key set
QuorumIdOf(kind, pks) == [kind |-> kind, key |-> pks.commitments]

\* generate_keysets: needs at least DkgThreshold + 1 complete Parts
generate_keysets(st) ==
    IF Cardinality(CompleteParts(st)) <= DkgThreshold
    THEN [ok |-> FALSE, err |-> "NotEnoughPartsCompleted", pks |-> None]
    ELSE [ok |-> TRUE, err |-> "",
          pks |-> Some(PublicKeySetOf(CompleteParts(st)))]

\* the acks that a member is given when only the acks of the other
\* members' Parts are passed on
acks_for_others(acks, node) ==
    SelectSeq(acks, LAMBDA a : a[2] # node)

\* run_dkg_process: every member is given every ack
acks_for(acks, node) ==
    acks

DkgInit ==
    /\ dkg_pc = "generate_parts"
    /\ dkg_nodes_order \in IterationOrders
    /\ dkg_parts_order = <<>>
    /\ dkg_i = 1
    /\ dkg_j = 1
    /\ dkg_parts = {}
    /\ dkg_acks = <<>>
    /\ dkg_state = [n \in DkgNodes |-> NewDkgState]
    /\ public_key_set = [n \in DkgNodes |-> None]
    /\ quorum_membership = [n \in DkgNodes |-> [kind |-> "Farmer", id |-> None]]

DkgIdle ==
    /\ dkg_pc = "idle"
    /\ dkg_nodes_order = <<>>
    /\ dkg_parts_order = <<>>
    /\ dkg_i = 0
    /\ dkg_j = 0
    /\ dkg_parts = {}
    /\ dkg_acks = <<>>
    /\ dkg_state = [n \in DkgNodes |-> NewDkgState]
    /\ public_key_set = [n \in DkgNodes |-> None]
    /\ quorum_membership = [n \in DkgNodes |-> [kind |-> "Farmer", id |-> None]]

\* run_dkg_process, first loop: a member generates its Part; after the last
\* member the parts are collected into a new map
GeneratePartialCommitmentMessage ==
    /\ dkg_pc = "generate_parts"
    /\ LET node == dkg_nodes_order[dkg_i]
       IN \E seed \in PartSeeds :
            /\ dkg_state' = [dkg_state EXCEPT ![node] =
                               generate_partial_commitment_message(@, node, seed)]
            /\ dkg_parts' = dkg_parts \cup {MkPart(node, seed)}
    /\ IF dkg_i < NumDkgNodes
       THEN /\ dkg_i' = dkg_i + 1
            /\ UNCHANGED <<dkg_pc, dkg_parts_order>>
       ELSE /\ dkg_i' = 1
            /\ dkg_pc' = "handle_parts"
            /\ dkg_parts_order' \in IterationOrders
    /\ UNCHANGED <<dkg_nodes_order, dkg_j, dkg_acks, public_key_set,
                   quorum_membership>>
    /\ UNCHANGED otherThanDkg

\* run_dkg_process, second loop: a member handles a Part and its Ack is
\* pushed to the acks
HandlePartCommitmentCreated ==
    /\ dkg_pc = "handle_parts"
    /\ LET node == dkg_nodes_order[dkg_i]
           part == CHOOSE p \in dkg_parts : p.sender = dkg_parts_order[dkg_j]
           res == handle_part_commitment_created(dkg_state[node], node, part)
       IN IF res.ok
          THEN /\ dkg_state' = [dkg_state EXCEPT ![node] = res.state]
               /\ dkg_acks' = Append(dkg_acks, MkAck(node, part.sender))
               /\ IF dkg_j < NumDkgNodes
                  THEN /\ dkg_j' = dkg_j + 1
                       /\ UNCHANGED <<dkg_i, dkg_pc>>
                  ELSE /\ dkg_j' = 1
                       /\ IF dkg_i < NumDkgNodes
                          THEN /\ dkg_i' = dkg_i + 1
                               /\ UNCHANGED dkg_pc
                          ELSE /\ dkg_i' = 1
                               /\ dkg_pc' = "handle_acks"
          ELSE /\ dkg_pc' = "panicked"
               /\ UNCHANGED <<dkg_state, dkg_acks, dkg_i, dkg_j>>
    /\ UNCHANGED <<dkg_nodes_order, dkg_parts_order, dkg_parts, public_key_set,
                   quorum_membership>>
    /\ UNCHANGED otherThanDkg

\* run_dkg_process, third loop: a member is given an Ack
HandlePartCommitmentAcknowledged ==
    /\ dkg_pc = "handle_acks"
    /\ LET node == dkg_nodes_order[dkg_i]
           acks == acks_for(dkg_acks, node)
       IN /\ dkg_j <= Len(acks)
          /\ dkg_state' = [dkg_state EXCEPT ![node] =
                             handle_part_commitment_acknowledged(@, acks[dkg_j])]
          /\ IF dkg_j < Len(acks)
             THEN /\ dkg_j' = dkg_j + 1
                  /\ UNCHANGED <<dkg_i, dkg_pc>>
             ELSE /\ dkg_j' = 1
                  /\ IF dkg_i < NumDkgNodes
                     THEN /\ dkg_i' = dkg_i + 1
                          /\ UNCHANGED dkg_pc
                     ELSE /\ dkg_i' = 1
                          /\ dkg_pc' = "handle_all"
    /\ UNCHANGED <<dkg_nodes_order, dkg_parts_order, dkg_parts, dkg_acks,
                   public_key_set, quorum_membership>>
    /\ UNCHANGED otherThanDkg

\* run_dkg_process, fourth loop: a member handles all its acks
HandleAllAckMessages ==
    /\ dkg_pc = "handle_all"
    /\ LET node == dkg_nodes_order[dkg_i]
           res == handle_all_ack_messages(dkg_state[node])
       IN IF res.ok
          THEN /\ dkg_state' = [dkg_state EXCEPT ![node] = res.state]
               /\ IF dkg_i < NumDkgNodes
                  THEN /\ dkg_i' = dkg_i + 1
                       /\ UNCHANGED dkg_pc
                  ELSE /\ dkg_i' = 1
                       /\ dkg_pc' = "generate_keysets"
          ELSE /\ dkg_pc' = "panicked"
               /\ UNCHANGED <<dkg_state, dkg_i>>
    /\ UNCHANGED <<dkg_nodes_order, dkg_parts_order, dkg_j, dkg_parts, dkg_acks,
                   public_key_set, quorum_membership>>
    /\ UNCHANGED otherThanDkg

\* run_dkg_process, fifth loop: a member generates its keyset and its
\* quorum id
GenerateKeysets ==
    /\ dkg_pc = "generate_keysets"
    /\ LET node == dkg_nodes_order[dkg_i]
           res == generate_keysets(dkg_state[node])
       IN IF res.ok
          THEN /\ public_key_set' = [public_key_set EXCEPT ![node] = res.pks]
               /\ quorum_membership' =
                    [quorum_membership EXCEPT ![node].id =
                        Some(QuorumIdOf(quorum_membership[node].kind, res.pks[1]))]
               /\ IF dkg_i < NumDkgNodes
                  THEN /\ dkg_i' = dkg_i + 1
                       /\ UNCHANGED dkg_pc
                  ELSE /\ dkg_i' = 1
                       /\ dkg_pc' = "done"
          ELSE /\ dkg_pc' = "panicked"
               /\ UNCHANGED <<public_key_set, quorum_membership, dkg_i>>
    /\ UNCHANGED <<dkg_nodes_order, dkg_parts_order, dkg_j, dkg_parts, dkg_acks,
                   dkg_state>>
    /\ UNCHANGED otherThanDkg

(***************************************************************************)
(* consolidate_update_args, step by step: the updates of a round for one   *)
(* address are taken from the HashSet in some order; the first is inserted *)
(* (or_insert) and every later one is folded into it (and_modify).         *)
(* Amounts are u128 in the source; here they are AmountWidth bits wide.    *)
(***************************************************************************)
AmountWidth == 3
MaxUpdates == 3

\* u128::MAX
MaxAmount == 2 ^ AmountWidth - 1

ConsolidatedAddress == "a"

\* the amounts of the updates of a round
UpdateAmounts == {1, MaxAmount}

\* StateUpdate.storage / StateUpdate.code: Option<String>
StorageValues == {None, Some("s1"), Some("s2")}
CodeValues == {None, Some("c1")}

\* From<StateUpdate> for UpdateArgs, with the storage and the code of the
\* update: Sender and Receiver wrap them in Some, Claim, Fee and Reward carry
\* None; Fee and Reward carry no digests
UpdateArgsOf(kind, amount, storage, code) ==
    CASE kind = "Sender" ->
            [address |-> ConsolidatedAddress, nonce |-> Some(1), credits |-> None,
             debits |-> Some(amount), storage |-> Some(storage),
             code |-> Some(code), digests |-> Some({<<"sent", "d1">>})]
      [] kind = "Receiver" ->
            [address |-> ConsolidatedAddress, nonce |-> None,
             credits |-> Some(amount), debits |-> None,
             storage |-> Some(storage), code |-> Some(code),
             digests |-> Some({<<"recv", "d2">>})]
      [] kind = "Claim" ->
            [address |-> ConsolidatedAddress, nonce |-> None,
             credits |-> None, debits |-> None, storage |-> None,
             code |-> None, digests |-> Some({<<"stake", "d3">>})]
      [] OTHER ->
            [address |-> ConsolidatedAddress, nonce |-> None,
             credits |-> Some(amount), debits |-> None, storage |-> None,
             code |-> None, digests |-> None]

\* the UpdateArgs a round can hold for the address
UpdateArgsInputs ==
    {UpdateArgsOf(kind, amount, storage, code) :
        kind \in {"Sender", "Receiver"}, amount \in UpdateAmounts,
        storage \in StorageValues, code \in CodeValues}
    \cup {UpdateArgsOf("Fee", amount, None, None) : amount \in UpdateAmounts}
    \cup {UpdateArgsOf("Claim", 0, None, None)}

\* a + b on u128 overflows
AddOverflows(a, b) == a + b > MaxAmount

\* a + b on u128 with overflow checks off: the sum wraps
WrappingAdd(a, b) == (a + b) % (2 ^ AmountWidth)

\* the match on (existing, update) for credits and for debits
and_modify_amount(existing, update) ==
    IF IsSome(existing) /\ IsSome(update)
    THEN Some(WrappingAdd(Unwrap(existing), Unwrap(update)))
    ELSE IF update = None THEN existing ELSE update

\* the match overflows: both are Some and the sum does not fit
and_modify_overflows(existing, update) ==
    /\ IsSome(existing)
    /\ IsSome(update)
    /\ AddOverflows(Unwrap(existing), Unwrap(update))

\* Option<u128>::max for the nonce: None is below every Some
and_modify_nonce(existing, update) ==
    IF existing = None THEN update
    ELSE IF update = None THEN existing
    ELSE IF Unwrap(existing) >= Unwrap(update) THEN existing ELSE update

\* the digests: extended only when both the update and the entry have some
and_modify_digests(existing, update) ==
    IF IsSome(update) /\ IsSome(existing)
    THEN Some(Unwrap(existing) \cup Unwrap(update))
    ELSE existing

\* the closure given to and_modify
and_modify(existing_update, update) ==
    [existing_update EXCEPT
        !.nonce = and_modify_nonce(existing_update.nonce, update.nonce),
        !.credits = and_modify_amount(existing_update.credits, update.credits),
        !.debits = and_modify_amount(existing_update.debits, update.debits),
        !.storage = update.storage,
        !.code = update.code,
        !.digests = and_modify_digests(existing_update.digests, update.digests)]

ConsolidateInit ==
    /\ cs_pending \in {U \in SUBSET UpdateArgsInputs :
                          Cardinality(U) \in 1..MaxUpdates}
    /\ cs_consolidated = None
    /\ cs_order = <<>>
    /\ cs_status = "running"
    /\ cs_build \in {"debug", "release"}

ConsolidateIdle ==
    /\ cs_pending = {}
    /\ cs_consolidated = None
    /\ cs_order = <<>>
    /\ cs_status = "idle"
    /\ cs_build = "debug"

\* consolidate_update_args: one iteration of the loop over the HashSet
ConsolidateStep ==
    /\ cs_status = "running"
    /\ \E update \in cs_pending :
          /\ cs_pending' = cs_pending \ {update}
          /\ cs_order' = Append(cs_order, update)
          /\ IF cs_consolidated = None
             THEN /\ cs_consolidated' = Some(update)
                  /\ UNCHANGED cs_status
             ELSE LET existing_update == Unwrap(cs_consolidated)
                      overflow ==
                         \/ and_modify_overflows(existing_update.credits,
                                                 update.credits)
                         \/ and_modify_overflows(existing_update.debits,
                                                 update.debits)
                  IN IF overflow /\ cs_build = "debug"
                     THEN /\ cs_status' = "panicked"
                          /\ UNCHANGED cs_consolidated
                     ELSE /\ cs_consolidated' =
                               Some(and_modify(existing_update, update))
                          /\ UNCHANGED cs_status
    /\ UNCHANGED cs_build
    /\ UNCHANGED otherThanConsolidate

\* consolidate_update_args: the loop is over, the map is returned
ConsolidateReturn ==
    /\ cs_status = "running"
    /\ cs_pending = {}
    /\ cs_status' = "done"
    /\ UNCHANGED <<cs_pending, cs_consolidated, cs_order, cs_build>>
    /\ UNCHANGED otherThanConsolidate

(***************************************************************************)
(* The records of the mempool: what add_txn and validate_one leave in the  *)
(* Mempool once their operations are absorbed and published.               *)
(***************************************************************************)
MaxClock == 3

\* SystemTime::now: not before the last value read
Now == {c \in 1..MaxClock : c >= mp_clock}

\* TxnRecord::new: the added timestamp is the time of the call
TxnRecordNew(t, timestamp) ==
    [txn_id |-> t, txn_added_timestamp |-> timestamp,
     txn_validated_timestamp |-> 0, txn_rejected_timestamp |-> 0]

\* IndexMap::insert: the record of the key is replaced when the key exists
MapInsert(map, key, rec) ==
    [k \in DOMAIN map \cup {key} |-> IF k = key THEN rec ELSE map[k]]

\* IndexMap::remove
MapRemove(map, key) == [k \in DOMAIN map \ {key} |-> map[k]]

EmptyMap == [k \in {} |-> 0]

\* Absorb::absorb_first with the record the operation carries
absorb_first(m, op) ==
    IF op.kind = "Add"
    THEN CASE op.status = "Pending" ->
                [m EXCEPT !.pending = MapInsert(@, op.rec.txn_id, op.rec)]
           [] op.status = "Validated" ->
                [m EXCEPT !.validated = MapInsert(@, op.rec.txn_id, op.rec)]
           [] OTHER ->
                [m EXCEPT !.rejected = MapInsert(@, op.rec.txn_id, op.rec)]
    ELSE CASE op.status = "Pending" ->
                [m EXCEPT !.pending = MapRemove(@, op.rec.txn_id)]
           [] op.status = "Validated" ->
                [m EXCEPT !.validated = MapRemove(@, op.rec.txn_id)]
           [] OTHER ->
                [m EXCEPT !.rejected = MapRemove(@, op.rec.txn_id)]

MempoolOpOf(kind, rec, status) == [kind |-> kind, rec |-> rec, status |-> status]

\* Mempool::default
PoolInit ==
    /\ mp_pool = [pending |-> EmptyMap, validated |-> EmptyMap,
                  rejected |-> EmptyMap]
    /\ mp_clock = 0
    /\ mp_last = [name |-> "new", txn_id |-> "", result |-> "Ok"]

PoolIdle == PoolInit

\* LeftRightMemPoolDB::add_txn: Add(TxnRecord::new(txn), Pending) is
\* appended and published; the call returns Ok(())
AddTxn(t) ==
    /\ \E timestamp \in Now :
          /\ mp_pool' = absorb_first(mp_pool,
                           MempoolOpOf("Add", TxnRecordNew(t, timestamp), "Pending"))
          /\ mp_clock' = timestamp
    /\ mp_last' = [name |-> "add_txn", txn_id |-> t, result |-> "Ok"]
    /\ UNCHANGED otherThanPool

\* LeftRightMemPoolDB::validate_one: a pending record moves to validated or
\* to rejected with the timestamp of the validation
ValidateOne(t) ==
    /\ \E timestamp \in Now :
          /\ mp_clock' = timestamp
          /\ IF t \in DOMAIN mp_pool.pending
             THEN LET rec_entry == mp_pool.pending[t]
                      rec == IF TxnIsValid(t)
                             THEN [rec_entry EXCEPT
                                      !.txn_validated_timestamp = timestamp]
                             ELSE [rec_entry EXCEPT
                                      !.txn_rejected_timestamp = timestamp]
                      status == IF TxnIsValid(t) THEN "Validated" ELSE "Rejected"
                  IN mp_pool' = absorb_first(
                                   absorb_first(mp_pool,
                                                MempoolOpOf("Add", rec, status)),
                                   MempoolOpOf("Remove", rec, "Pending"))
             ELSE UNCHANGED mp_pool
    /\ mp_last' = [name |-> "validate_one", txn_id |-> t, result |-> "Ok"]
    /\ UNCHANGED otherThanPool

\* LeftRightMemPoolDB::purge_txn_rejected: get() hands out a clone of the
\* mempool behind the read handle; the clone is cleared and then dropped
purge_txn_rejected(m) ==
    [mempool |-> m, map |-> [m EXCEPT !.rejected = EmptyMap]]

\* LeftRightMemPoolDB::purge_txn_rejected is called; it returns Ok(())
PurgeTxnRejected ==
    /\ mp_pool' = purge_txn_rejected(mp_pool).mempool
    /\ mp_last' = [name |-> "purge_txn_rejected", txn_id |-> "", result |-> "Ok"]
    /\ UNCHANGED mp_clock
    /\ UNCHANGED otherThanPool

(***************************************************************************)
(* The DKG engine of one node and clear_dkg_state.  The engine is cleared  *)
(* through &mut self: while the assignments of clear_dkg_state run, nothing *)
(* else holds a reference to the engine.                                   *)
(***************************************************************************)
PeerKeys == {"k1"}
EngineSeeds == {"r1"}
EnginePeers == {1, 2}

\* the number of assignments of clear_dkg_state
ClearSteps == 7

\* DkgEngine::new: the dkg_state of a fresh engine
NewEngineDkgState ==
    [part_message_store |-> {}, ack_message_store |-> {},
     peer_public_keys |-> {}, public_key_set |-> None,
     secret_key_share |-> None, sync_key_gen |-> None,
     random_number_gen |-> None]

\* DkgEngine::add_peer_public_key: BTreeMap::insert replaces the key of the node
add_peer_public_key(st, node_id, public_key) ==
    [st EXCEPT !.peer_public_keys =
        {e \in @ : e[1] # node_id} \cup {<<node_id, public_key>>}]

\* the i-th assignment of clear_dkg_state when the peer public keys are kept
clear_dkg_state_keeping_peers(st, i) ==
    CASE i = 1 -> [st EXCEPT !.part_message_store = {}]
      [] i = 2 -> [st EXCEPT !.ack_message_store = {}]
      [] i = 3 -> [st EXCEPT !.sync_key_gen = None]
      [] i = 4 -> [st EXCEPT !.random_number_gen = None]
      [] i = 5 -> [st EXCEPT !.public_key_set = None]
      [] i = 6 -> st
      [] OTHER -> [st EXCEPT !.secret_key_share = None]

\* DkgEngine::clear_dkg_state: its i-th assignment
clear_dkg_state(st, i) ==
    CASE i = 1 -> [st EXCEPT !.part_message_store = {}]
      [] i = 2 -> [st EXCEPT !.ack_message_store = {}]
      [] i = 3 -> [st EXCEPT !.sync_key_gen = None]
      [] i = 4 -> [st EXCEPT !.random_number_gen = None]
      [] i = 5 -> [st EXCEPT !.public_key_set = None]
      [] i = 6 -> [st EXCEPT !.peer_public_keys = {}]
      [] OTHER -> [st EXCEPT !.secret_key_share = None]

EngineInit ==
    /\ eng_dkg_state = NewEngineDkgState
    /\ eng_pc = 0
    /\ eng_observed = None
    /\ eng_last = [name |-> "new", before |-> NewEngineDkgState]

EngineIdle == EngineInit

\* DkgEngine::add_peer_public_key
AddPeerPublicKey(node_id, public_key) ==
    /\ eng_pc = 0
    /\ eng_dkg_state' = add_peer_public_key(eng_dkg_state, node_id, public_key)
    /\ eng_last' = [name |-> "add_peer_public_key", before |-> NewEngineDkgState]
    /\ UNCHANGED <<eng_pc, eng_observed>>
    /\ UNCHANGED otherThanEngine

\* the engine creates its key generation instance and its own Part
EngineGenerateSyncKeygenInstance(seed) ==
    /\ eng_pc = 0
    /\ eng_dkg_state.peer_public_keys # {}
    /\ eng_dkg_state' =
          [generate_partial_commitment_message(eng_dkg_state, 1, seed) EXCEPT
              !.sync_key_gen = Some("instance"),
              !.random_number_gen = Some("rng")]
    /\ eng_last' = [name |-> "generate_sync_keygen_instance", before |-> NewEngineDkgState]
    /\ UNCHANGED <<eng_pc, eng_observed>>
    /\ UNCHANGED otherThanEngine

\* the engine records and acknowledges the Part of a peer
EngineAckPartialCommitment(sender, seed) ==
    /\ eng_pc = 0
    /\ IsSome(eng_dkg_state.sync_key_gen)
    /\ LET res == handle_part_commitment_created(eng_dkg_state, 1,
                                                 MkPart(sender, seed))
       IN eng_dkg_state' = res.state
    /\ eng_last' = [name |-> "ack_partial_commitment", before |-> NewEngineDkgState]
    /\ UNCHANGED <<eng_pc, eng_observed>>
    /\ UNCHANGED otherThanEngine

\* the engine generates its key sets
EngineGenerateKeySets ==
    /\ eng_pc = 0
    /\ IsSome(eng_dkg_state.sync_key_gen)
    /\ eng_dkg_state.ack_message_store # {}
    /\ eng_dkg_state' =
          [eng_dkg_state EXCEPT
              !.public_key_set =
                  Some(PublicKeySetOf(eng_dkg_state.part_message_store)),
              !.secret_key_share = Some("share")]
    /\ eng_last' = [name |-> "generate_key_sets", before |-> NewEngineDkgState]
    /\ UNCHANGED <<eng_pc, eng_observed>>
    /\ UNCHANGED otherThanEngine

\* DkgEngine::clear_dkg_state, one assignment at a time
ClearDkgState ==
    /\ eng_dkg_state' = clear_dkg_state(eng_dkg_state, eng_pc + 1)
    /\ eng_pc' = IF eng_pc + 1 = ClearSteps THEN 0 ELSE eng_pc + 1
    /\ eng_last' = IF eng_pc = 0
                   THEN [name |-> "clear_dkg_state", before |-> eng_dkg_state]
                   ELSE eng_last
    /\ UNCHANGED eng_observed
    /\ UNCHANGED otherThanEngine

\* a reader of the engine (&self): it cannot run while clear_dkg_state holds
\* the engine
ObserveEngine ==
    /\ eng_pc = 0
    /\ eng_observed' = Some([dkg_state |-> eng_dkg_state, cleared |-> eng_pc])
    /\ UNCHANGED <<eng_dkg_state, eng_pc, eng_last>>
    /\ UNCHANGED otherThanEngine

(***************************************************************************)
(* A node runtime: the assignment of its quorum membership and, for a      *)
(* farmer, the validation of transactions and the votes on them.           *)
(***************************************************************************)
NodeTypes == {"Bootstrap", "Validator", "Miner"}
QuorumKinds == {"Farmer", "Harvester", "Miner"}
RuntimeNodeId == 1

\* the balance of the sender account known to the farmers
SenderBalance == 2

\* AssignedQuorumMembership
AssignedQuorumMembershipOf(kind, node_id, peers) ==
    [quorum_kind |-> kind, node_id |-> node_id, peers |-> peers]

AssignedQuorumMemberships ==
    {AssignedQuorumMembershipOf(k, n, p) :
        k \in QuorumKinds, n \in {RuntimeNodeId}, p \in SUBSET {2}}

\* the transactions the tests build: a valid one, one whose amount is above
\* the balance, one with an invalid signature, one with an invalid
\* timestamp, one whose sender has no account
RuntimeTxn(id, amount, signature_ok, timestamp_ok, sender_exists) ==
    [id |-> id, amount |-> amount, signature_ok |-> signature_ok,
     timestamp_ok |-> timestamp_ok, sender_exists |-> sender_exists]

RuntimeTxns ==
    {RuntimeTxn("valid", 1, TRUE, TRUE, TRUE),
     RuntimeTxn("amount", SenderBalance + 1, TRUE, TRUE, TRUE),
     RuntimeTxn("signature", 1, FALSE, TRUE, TRUE),
     RuntimeTxn("timestamp", 1, TRUE, FALSE, TRUE),
     RuntimeTxn("sender", 1, TRUE, TRUE, FALSE)}

\* a node that accepts a quorum membership whatever its type
accepts_every_node_type(node_type) == FALSE

\* the node refuses a quorum membership when it is a bootstrap node
refuses_quorum_membership(node_type) == node_type = "Bootstrap"

\* validate_transaction_kind: the validity of a transaction of the mempool
validate_transaction_kind(txn) ==
    /\ txn.signature_ok
    /\ txn.timestamp_ok
    /\ txn.sender_exists
    /\ txn.amount <= SenderBalance

\* a Vote: the transaction and whether the farmer found it valid
VoteOf(farmer_id, txn, validity) ==
    [farmer_id |-> farmer_id, txn |-> txn.id, is_txn_valid |-> validity]

\* a farmer that votes on the valid transactions only
cast_vote_on_valid_only(farmer_id, txn, validity) ==
    IF validity THEN Some(VoteOf(farmer_id, txn, validity)) ELSE None

\* cast_vote_on_transaction_kind: a vote whatever the validity
cast_vote_on_transaction_kind(farmer_id, txn, validity) ==
    Some(VoteOf(farmer_id, txn, validity))

RuntimeInit ==
    /\ nr_node_type \in NodeTypes
    /\ nr_quorum_membership = None
    /\ nr_mempool = {}
    /\ nr_votes = {}
    /\ nr_last = [name |-> "new", result |-> "Ok", txn |-> ""]

RuntimeIdle ==
    /\ nr_node_type = "Validator"
    /\ nr_quorum_membership = None
    /\ nr_mempool = {}
    /\ nr_votes = {}
    /\ nr_last = [name |-> "new", result |-> "Ok", txn |-> ""]

\* NodeRuntime::handle_quorum_membership_assigment_created
HandleQuorumMembershipAssigmentCreated(assigned_membership) ==
    /\ IF refuses_quorum_membership(nr_node_type)
       THEN /\ nr_last' = [name |-> "handle_quorum_membership_assigment_created",
                           result |-> "Err", txn |-> ""]
            /\ UNCHANGED nr_quorum_membership
       ELSE /\ nr_quorum_membership' = Some(assigned_membership)
            /\ nr_last' = [name |-> "handle_quorum_membership_assigment_created",
                           result |-> "Ok", txn |-> ""]
    /\ UNCHANGED <<nr_node_type, nr_mempool, nr_votes>>
    /\ UNCHANGED otherThanRuntime

\* NodeRuntime::insert_txn_to_mempool
InsertTxnToMempool(txn) ==
    /\ nr_mempool' = nr_mempool \cup {txn}
    /\ nr_last' = [name |-> "insert_txn_to_mempool", result |-> "Ok",
                   txn |-> txn.id]
    /\ UNCHANGED <<nr_node_type, nr_quorum_membership, nr_votes>>
    /\ UNCHANGED otherThanRuntime

\* a farmer validates a transaction of its mempool and casts its vote on it
ValidateAndVote(txn) ==
    /\ txn \in nr_mempool
    /\ IsSome(nr_quorum_membership)
    /\ Unwrap(nr_quorum_membership).quorum_kind = "Farmer"
    /\ LET validity == validate_transaction_kind(txn)
           vote == cast_vote_on_transaction_kind(RuntimeNodeId, txn, validity)
       IN /\ nr_votes' = IF IsSome(vote) THEN nr_votes \cup {Unwrap(vote)}
                         ELSE nr_votes
          /\ nr_last' = [name |-> "validate_and_vote", result |-> "Ok",
                         txn |-> txn.id]
    /\ UNCHANGED <<nr_node_type, nr_quorum_membership, nr_mempool>>
    /\ UNCHANGED otherThanRuntime

(***************************************************************************)
(* The miner election: get_lowest_pointer over the claims of the ledger.   *)
(* The claim map is a LinkedHashMap: it is iterated in insertion order.    *)
(* The pointer of a claim for the block seed is fixed when the claim is    *)
(* entered.                                                                *)
(***************************************************************************)
MaxClaims == 3
MaxPointer == 2

\* the claim hashes, in lexicographic order
ClaimHashes == <<"h1", "h2", "h3">>

\* Claim::get_pointer(block_seed): None or a pointer sum
Pointers == {None} \cup {Some(v) : v \in 1..MaxPointer}

\* a claim of the ledger: eligible until it is slashed
ClaimOf(hash, pointer) == [hash |-> hash, pointer |-> pointer, eligible |-> TRUE]

\* the smallest of a non-empty set of numbers
MinOf(S) == CHOOSE v \in S : \A w \in S : v <= w

\* NetworkState::get_lowest_pointer
get_lowest_pointer(claim_map) ==
    LET pointers == SelectSeq(claim_map, LAMBDA c : IsSome(c.pointer))
        base_pointers == [i \in DOMAIN pointers |->
                             <<pointers[i].hash, Unwrap(pointers[i].pointer)>>]
    IN IF base_pointers = <<>>
       THEN None
       ELSE LET min == MinOf({base_pointers[i][2] : i \in DOMAIN base_pointers})
                retained == SelectSeq(base_pointers, LAMBDA p : p[2] = min)
            IN Some(retained[1])

ElectionInit ==
    /\ el_claim_map = <<>>
    /\ el_result = [called |-> FALSE, value |-> None]

ElectionIdle == ElectionInit

\* a claim enters the ledger: LinkedHashMap::insert of a new key
InsertClaim(claim) ==
    /\ Len(el_claim_map) < MaxClaims
    /\ \A i \in DOMAIN el_claim_map : el_claim_map[i].hash # claim.hash
    /\ el_claim_map' = Append(el_claim_map, claim)
    /\ el_result' = [called |-> FALSE, value |-> None]
    /\ UNCHANGED otherThanElection

\* the keys slash_claims may be given
BadValidators == SUBSET {ClaimHashes[i] : i \in DOMAIN ClaimHashes} \ {{}}

\* NetworkState::slash_claims: every named claim of the ledger loses its
\* eligibility
slash_claims(claim_map, bad_validators) ==
    [i \in DOMAIN claim_map |->
        IF claim_map[i].hash \in bad_validators
        THEN [claim_map[i] EXCEPT !.eligible = FALSE]
        ELSE claim_map[i]]

SlashClaims(bad_validators) ==
    /\ el_claim_map' = slash_claims(el_claim_map, bad_validators)
    /\ el_result' = [called |-> FALSE, value |-> None]
    /\ UNCHANGED otherThanElection

\* NetworkState::get_lowest_pointer is called
GetLowestPointer ==
    /\ el_result' = [called |-> TRUE, value |-> get_lowest_pointer(el_claim_map)]
    /\ UNCHANGED el_claim_map
    /\ UNCHANGED otherThanElection

(***************************************************************************)
(* Specifications, one per subsystem.                                      *)
(***************************************************************************)
\* the DAG engine at rest, for the specifications of the other subsystems
DagIdle ==
    /\ dag_vertices = {}
    /\ dag_edges = {}
    /\ last_confirmed_block = None
    /\ pending_convergence_blocks = {}
    /\ partial_certificate_signatures = [h \in ConvergenceHashes |-> {}]
    /\ quorum_kind = "Harvester"
    /\ events = <<>>
    /\ certs_formed = [h \in ConvergenceHashes |-> 0]
    /\ valid_delivered = {}
    /\ orphan_proposals = {}
    /\ quorum_pending = None
    /\ quorum_members = GenesisQuorumMembers
    /\ votes_pool = {}
    /\ apply_result = None
    /\ last_op = NoOp

Init == DagInit /\ StateIdle /\ MempoolIdle /\ RouterIdle /\ DkgIdle
    /\ ConsolidateIdle
    /\ PoolIdle
    /\ EngineIdle
    /\ RuntimeIdle
    /\ ElectionIdle

Next ==
    \/ \E g \in GenesisInputs : HandleGenesisBlockReceived(g)
    \/ \E h \in GenesisHashes : AppendCertificateToGenesisBlock(h, ValidCert(h))
    \/ \E p \in ProposalInputs : WriteVertex(p)
    \/ \E p \in ProposalBlockInputs : HandleProposalBlockReceived(p)
    \/ \E c \in ConvergenceInputs : HandleConvergenceBlockReceived(c)
    \/ \E h \in ConvergenceHashes : \E c \in NetCerts(h) :
          AppendCertificateToConvergenceBlock(c)

Spec == Init /\ [][Next]_vars

\* The harvester: partial signatures arrive for a convergence block that may
\* or may not be pending, and the certificate may arrive from a peer.
SigHashes == {"c1"}
SigInputs == {Sign(n, h) : n \in NodeIds, h \in SigHashes} \cup {Sign(1, "c2")}

NextHarvester ==
    \/ \E h \in SigHashes : HandleConvergenceBlockReceived(MkBlock(h, None))
    \/ \E h \in SigHashes : AppendCertificateToConvergenceBlock(ValidCert(h))
    \/ \E h \in SigHashes, n \in NodeIds, s \in SigInputs :
          HandleHarvesterSignatureReceived(h, n, s)
    \/ HandleBlockCertificateCreated
    \/ \E h \in SigHashes, precheck \in PrecheckResults :
          HandleConvergenceBlockPrecheckRequested(MkBlock(h, None), precheck)
    \/ HandleSignConvergenceBlock
    \/ \E elected \in ElectedQuorumMembers : HandleQuorumElected(elected)
    \/ \E digest \in VoteDigests : HandleVoteReceived(digest)
    \/ \E digest \in VoteDigests : CertifyTransaction(digest)

SpecHarvester == Init /\ [][NextHarvester]_vars

\* The state module and the ledger: confirmed rounds are applied.
InitState == DagIdle /\ StateInit /\ MempoolIdle /\ RouterIdle /\ DkgIdle
    /\ ConsolidateIdle
    /\ PoolIdle
    /\ EngineIdle
    /\ RuntimeIdle
    /\ ElectionIdle

NextState ==
    \/ UpdateStateNotFound
    \/ \E round \in Rounds : UpdateState(round)
    \/ \E txns \in SUBSET Digests : Dump(txns, RewardOf)

SpecState == InitState /\ [][NextState]_vars

\* The mempool: one writer and the readers, interleaved.
InitMempool == DagIdle /\ StateIdle /\ MempoolInit /\ RouterIdle /\ DkgIdle
    /\ ConsolidateIdle
    /\ PoolIdle
    /\ EngineIdle
    /\ RuntimeIdle
    /\ ElectionIdle

NextMempool ==
    \/ \E batch \in SUBSET MempoolTxns : AddTxnBatchStart(batch)
    \/ AddTxnBatchAppend
    \/ \E t \in MempoolTxns : RemoveTxn(t)
    \/ ValidateAllStart
    \/ ValidateAllNext
    \/ PublishWait
    \/ PublishAbsorb
    \/ PublishSwap
    \/ \E r \in Readers : ReaderEnter(r)
    \/ \E r \in Readers : ReaderClone(r)
    \/ \E r \in Readers : ReaderLeave(r)

SpecMempool == InitMempool /\ [][NextMempool]_vars

\* The event router, its subscribers and the shutdown of the node.
InitRouter == DagIdle /\ StateIdle /\ MempoolIdle /\ RouterInit /\ DkgIdle
    /\ ConsolidateIdle
    /\ PoolIdle
    /\ EngineIdle
    /\ RuntimeIdle
    /\ ElectionIdle

NextRouter ==
    \/ \E topic \in Topics : AddTopic(topic)
    \/ \E sub \in Subscribers, topic \in Topics : Subscribe(sub, topic)
    \/ RouterStart
    \/ \E topic \in Topics : PublishEvent(topic)
    \/ NodeWaitSendStop
    \/ NodeWaitSendStopJsonRpc
    \/ NodeWaitJoin
    \/ RouterReceive
    \/ \E sub \in Subscribers : SubscriberReceive(sub)

SpecRouter == InitRouter /\ [][NextRouter]_vars

\* the router and the shutdown under the scheduling of the tokio runtime: a
\* task that can take its next step takes it; nothing obliges the control
\* signal to arrive or a module to publish
RouterFairness ==
    /\ WF_vars(RouterReceive)
    /\ WF_vars(NodeWaitSendStopJsonRpc)
    /\ WF_vars(NodeWaitJoin)
    /\ \A sub \in Subscribers : WF_vars(SubscriberReceive(sub))

SpecRouterFair == SpecRouter /\ RouterFairness

\* the DKG exchange of one quorum
InitDkg == DagIdle /\ StateIdle /\ MempoolIdle /\ RouterIdle /\ DkgInit
    /\ ConsolidateIdle
    /\ PoolIdle
    /\ EngineIdle
    /\ RuntimeIdle
    /\ ElectionIdle

NextDkg ==
    \/ GeneratePartialCommitmentMessage
    \/ HandlePartCommitmentCreated
    \/ HandlePartCommitmentAcknowledged
    \/ HandleAllAckMessages
    \/ GenerateKeysets

SpecDkg == InitDkg /\ [][NextDkg]_vars

\* the consolidation of the updates of one address
InitConsolidate ==
    DagIdle /\ StateIdle /\ MempoolIdle /\ RouterIdle /\ DkgIdle /\ ConsolidateInit
    /\ PoolIdle
    /\ EngineIdle
    /\ RuntimeIdle
    /\ ElectionIdle

NextConsolidate ==
    \/ ConsolidateStep
    \/ ConsolidateReturn

SpecConsolidate == InitConsolidate /\ [][NextConsolidate]_vars

\* the records of the mempool under insertions and validations
InitPool == DagIdle /\ StateIdle /\ MempoolIdle /\ RouterIdle /\ DkgIdle /\ ConsolidateIdle
    /\ PoolInit
    /\ EngineIdle
    /\ RuntimeIdle
    /\ ElectionIdle

NextPool ==
    \/ \E t \in MempoolTxns : AddTxn(t)
    \/ \E t \in MempoolTxns : ValidateOne(t)
    \/ PurgeTxnRejected

SpecPool == InitPool /\ [][NextPool]_vars

\* the DKG engine of one node over an epoch and its clearing
InitEngine == DagIdle /\ StateIdle /\ MempoolIdle /\ RouterIdle /\ DkgIdle /\ ConsolidateIdle /\ PoolIdle
    /\ EngineInit
    /\ RuntimeIdle
    /\ ElectionIdle

NextEngine ==
    \/ \E node_id \in EnginePeers, public_key \in PeerKeys :
          AddPeerPublicKey(node_id, public_key)
    \/ \E seed \in EngineSeeds : EngineGenerateSyncKeygenInstance(seed)
    \/ \E sender \in EnginePeers, seed \in EngineSeeds :
          EngineAckPartialCommitment(sender, seed)
    \/ EngineGenerateKeySets
    \/ ClearDkgState
    \/ ObserveEngine

SpecEngine == InitEngine /\ [][NextEngine]_vars

\* a node runtime that is assigned to a quorum and, as a farmer, votes
InitRuntime == DagIdle /\ StateIdle /\ MempoolIdle /\ RouterIdle /\ DkgIdle /\ ConsolidateIdle /\ PoolIdle /\ EngineIdle
    /\ RuntimeInit
    /\ ElectionIdle

NextRuntime ==
    \/ \E a \in AssignedQuorumMemberships :
          HandleQuorumMembershipAssigmentCreated(a)
    \/ \E txn \in RuntimeTxns : InsertTxnToMempool(txn)
    \/ \E txn \in RuntimeTxns : ValidateAndVote(txn)

SpecRuntime == InitRuntime /\ [][NextRuntime]_vars

\* the miner election over the claims entered so far
InitElection == DagIdle /\ StateIdle /\ MempoolIdle /\ RouterIdle /\ DkgIdle /\ ConsolidateIdle /\ PoolIdle /\ EngineIdle /\ RuntimeIdle
    /\ ElectionInit

NextElection ==
    \/ \E i \in DOMAIN ClaimHashes, pointer \in Pointers :
          InsertClaim(ClaimOf(ClaimHashes[i], pointer))
    \/ GetLowestPointer
    \/ \E bad_validators \in BadValidators : SlashClaims(bad_validators)

SpecElection == InitElection /\ [][NextElection]_vars

(***************************************************************************)
(* Properties of the DAG engine and of the harvester.                      *)
(***************************************************************************)

\* the convergence block the last call admitted as confirmed: the call
\* returned Ok(Some(block)), the edges are written, last_confirmed is the block
AdmittedConvergenceBlocks ==
    {b \in dag_vertices :
        /\ b.kind = "Convergence"
        /\ last_confirmed_block = Some(b)
        /\ last_op.op \in {"append_convergence",
                           "append_certificate_to_convergence_block"}
        /\ last_op.hash = b.hash
        /\ last_op.result = "OkSome"}

\* C1: every convergence block admitted as confirmed carries a certificate
\* with at least harvester_threshold signatures, each verifying against the
\* hash of the block.
C1_AdmittedCarriesValidCertificate ==
    \A b \in AdmittedConvergenceBlocks :
       /\ IsSome(b.certificate)
       /\ Cardinality(Unwrap(b.certificate).signatures) >= HarvesterThreshold
       /\ verify_batch(Unwrap(b.certificate).signatures, b.hash)

\* C2: for any block hash at most one certificate is formed and at most one
\* BlockCertificateCreated event is emitted.
C2_AtMostOneCertificate ==
    \A h \in ConvergenceHashes : certs_formed[h] <= 1

\* the T-th distinct valid partial signature for h arrives in this step
ThresholdMetNow(h) ==
    /\ ValidCount(h) = HarvesterThreshold - 1
    /\ ValidCount(h)' = HarvesterThreshold

\* this step forms the certificate of h and emits BlockCertificateCreated
CertificateFormedNow(h) ==
    /\ certs_formed'[h] = certs_formed[h] + 1
    /\ events' = Append(events, BlockCertificateCreated(
                     [MkCertificate(partial_certificate_signatures'[h], h)
                         EXCEPT !.inauguration = quorum_pending]))

\* C3 as stated: below T distinct valid partial signatures no certificate
\* is formed and no event emitted; the T-th forms the certificate and emits
\* the event.
C3_ThresholdAsStated ==
    [][\A h \in SigHashes :
          /\ ValidCount(h)' < HarvesterThreshold => certs_formed'[h] = 0
          /\ ThresholdMetNow(h) => CertificateFormedNow(h)]_vars

\* C3, amended: below T distinct valid partial signatures no certificate is
\* formed and no event emitted; the T-th forms the certificate and emits the
\* event when the node is a harvester and the block is pending.
C3_ThresholdBoundary ==
    [][\A h \in SigHashes :
          /\ ValidCount(h)' < HarvesterThreshold => certs_formed'[h] = 0
          /\ (/\ ThresholdMetNow(h)
              /\ is_harvester
              /\ HasPending(pending_convergence_blocks, h))
             => CertificateFormedNow(h)]_vars

\* a delivery has just formed the first certificate with exactly T signatures
C3_Witness ==
    \E h \in SigHashes :
       /\ ValidCount(h) = HarvesterThreshold
       /\ Cardinality(partial_certificate_signatures[h]) = HarvesterThreshold
       /\ certs_formed[h] = 1
       /\ is_harvester
       /\ HasPending(pending_convergence_blocks, h)
       /\ last_op = [op |-> "harvester_signature", hash |-> h, result |-> "Ok"]

\* the header of block b refers to hash h: directly, or through one of the
\* proposal blocks it references
RefersTo(b, h) ==
    \/ h \in b.ref_hashes
    \/ \E p \in b.ref_hashes : h \in RefHashesOf(p)

\* C4: each time last_confirmed advances, the new header refers to the
\* previous last_confirmed block, so the headers form one chain from genesis.
C4_LastConfirmedChain ==
    [][(/\ last_confirmed_block' # last_confirmed_block
        /\ IsSome(last_confirmed_block'))
       => IF IsSome(last_confirmed_block)
          THEN RefersTo(Unwrap(last_confirmed_block'),
                        Unwrap(last_confirmed_block).hash)
          ELSE Unwrap(last_confirmed_block').kind = "Genesis"]_vars

GenesisVertices(vs) == {v \in vs : v.kind = "Genesis"}

\* C5: append_genesis on a DAG that already has a genesis block returns an
\* error, leaves one Genesis vertex and does not change last_confirmed.
C5_DuplicateGenesisRejected ==
    [][(/\ last_op'.op = "append_genesis"
        /\ GenesisVertices(dag_vertices) # {})
       => /\ last_op'.result = "Err"
          /\ Cardinality(GenesisVertices(dag_vertices')) = 1
          /\ last_confirmed_block' = last_confirmed_block]_vars

C18_OnlyVerifiedPartialsCount ==
    \A h \in ConvergenceHashes :
       /\ \A e \in partial_certificate_signatures[h] : verify(e[1], e[2], h)
       /\ certs_formed[h] > 0 => ValidCount(h) >= HarvesterThreshold

\* a signature that does not verify was just turned away while verified
\* signatures of the same block are held
C18_Witness ==
    \E h \in SigHashes :
       /\ last_op = [op |-> "harvester_signature", hash |-> h,
                     result |-> "ErrVerify"]
       /\ partial_certificate_signatures[h] # {}
       /\ ValidCount(h) < HarvesterThreshold
       /\ certs_formed[h] = 0

\* C14: append_convergence called with a convergence block that carries a
\* certificate, buffered before or not, returns Ok(Some(block)), sets
\* last_confirmed to the block and leaves no entry for its hash in
\* pending_convergence_blocks.
C14_CertifiedConvergenceAdmitted ==
    [][\A block \in ConvergenceInputs :
          (/\ IsSome(block.certificate)
           /\ is_harvester
           /\ HandleConvergenceBlockReceived(block))
          => /\ last_op'.result = "OkSome"
             /\ last_confirmed_block' = Some(block)
             /\ ~HasPending(pending_convergence_blocks', block.hash)]_vars

\* C15: append_proposal for a proposal whose referenced block is not in the
\* DAG returns NonExistentSource and adds no vertex and no edge.
C15_MissingReferenceRejected ==
    [][\A p \in ProposalBlockInputs :
          (/\ ~HasVertex(dag_vertices, p.ref_block)
           /\ HandleProposalBlockReceived(p))
          => /\ last_op'.result = "NonExistentSource"
             /\ dag_vertices' = dag_vertices
             /\ dag_edges' = dag_edges]_vars

\* C16: a proposal that came while its reference was missing is not lost:
\* once the block it refers to is in the DAG, the proposal is in the DAG.
C16_OrphanInsertedWithParent ==
    \A h \in orphan_proposals :
       (\A r \in RefHashesOf(h) : HasVertex(dag_vertices, r))
       => HasVertex(dag_vertices, h)

\* what the claims call a proposal whose proposer signature verifies
ProposerSignatureVerifies(p) ==
    /\ IsSome(p.signature)
    /\ verify(p.from, Unwrap(p.signature), p.hash)

\* C17: a proposal whose proposer signature does not verify is not inserted
\* into the DAG, and append_proposal returns an error for it.
C17_InvalidProposalReported ==
    [][\A p \in ProposalBlockInputs :
          (/\ ~ProposerSignatureVerifies(p)
           /\ HandleProposalBlockReceived(p))
          => /\ dag_vertices' = dag_vertices
             /\ dag_edges' = dag_edges
             /\ last_op'.result \notin {"Ok", "Panic"}]_vars

\* C25: the active quorum members are replaced by the inaugurated ones in
\* one step, at the apply point of the convergence block whose certificate
\* carries the inauguration (the step that makes that block the last
\* confirmed one), and no vote received under the prior quorum is still
\* pending when the swap takes effect.
C25_SwapAtApplyPoint ==
    [][quorum_members' # quorum_members
       => /\ votes_pool = {}
          /\ last_confirmed_block' # last_confirmed_block
          /\ IsSome(last_confirmed_block')
          /\ IsSome(Unwrap(last_confirmed_block').certificate)
          /\ Unwrap(Unwrap(last_confirmed_block').certificate).inauguration
                = Some(quorum_members')]_vars

(***************************************************************************)
(* Properties of the state module.                                         *)
(***************************************************************************)

\* C6: at every state reached by applying confirmed rounds every account has
\* credits >= debits, so its balance is never negative.
C6_CreditsCoverDebits ==
    \A a \in Addresses : ledger_credits[a] >= ledger_debits[a]

\* the retained-digest sets of a convergence block list a digest at most once
RetainedOnce(round) ==
    \A h1, h2 \in DOMAIN round.txns :
       h1 # h2 => round.txns[h1] \cap round.txns[h2] = {}

\* the proposals of the round whose retained-digest set lists digest d
RetainingProposals(round, d) ==
    {p \in round.proposals :
        /\ d \in p.txns
        /\ p.hash \in DOMAIN round.txns
        /\ d \in round.txns[p.hash]}

\* C7: every transaction applied with a round comes from exactly one
\* proposal of the round, the one whose retained-digest set lists it.
C7_TakenFromRetainingProposal ==
    (state_result = "Ok" /\ IsSome(last_round) /\ RetainedOnce(Unwrap(last_round)))
    => \A u \in last_updates :
          u.update_account \in {"Sender", "Receiver"}
          => Cardinality(RetainingProposals(Unwrap(last_round), u.digest)) = 1

\* C11: applying the same confirmed round to the state store a second time
\* leaves the state root unchanged: no account differs in nonce, credits,
\* debits or digests from its value after the first apply.
C11_SecondApplyIsNoOp ==
    [][(/\ state_op = "update_state"
        /\ state_result = "Ok"
        /\ failed_updates = {}
        /\ IsSome(last_round)
        /\ state_op' = "update_state"
        /\ state_result' = "Ok"
        /\ failed_updates' = {}
        /\ last_round' = last_round
        /\ rounds_applied' = rounds_applied + 1)
       => accounts' = accounts]_vars

\* C12: when an account update of a round fails, the round is rolled back:
\* the accounts are those before the round and the failure is reported.
C12_FailedRoundRolledBack ==
    [][(/\ state_op' = "update_state"
        /\ failed_updates' # {})
       => /\ accounts' = accounts
          /\ state_result' = "Err"]_vars

(***************************************************************************)
(* Properties of the mempool.                                              *)
(***************************************************************************)

\* C8: a reader never observes a partially applied write: the view a get()
\* returns is the mempool as it was left by the completed operations at some
\* moment of the read, with none or all of the changes of any batch insert
\* or validation pass; between operations the published copy is that mempool.
C8_ReadersSeeWholeWrites ==
    /\ \A r \in Readers : rd_pc[r] = "done" => rd_view[r] \in rd_candidates[r]
    /\ wr_pc = "idle" => lr_copies[lr_read_idx] = mp_logical

\* a get() that overlapped a publish has returned the view from before it
C8_Witness ==
    \E r \in Readers :
       /\ rd_pc[r] = "done"
       /\ Cardinality(rd_candidates[r]) = 2
       /\ rd_view[r].pending # {}
       /\ rd_view[r] # mp_logical

(***************************************************************************)
(* Properties of the event router.                                         *)
(***************************************************************************)

\* Stop has reached the receiver of a subscriber
StopDelivered(sub) ==
    \/ \E i \in 1..Len(rt_queue[sub]) : rt_queue[sub][i] = "Stop"
    \/ \E i \in 1..Len(rt_received[sub]) : rt_received[sub][i] = "Stop"

\* C10: when the router has received Stop and terminated, every subscriber
\* of every registered topic has been sent Stop.
C10_StopReachesEverySubscriber ==
    rt_status = "stopped"
    => \A sub \in Subscribers : rt_subs[sub] \in rt_topics => StopDelivered(sub)

(***************************************************************************)
(* Properties of the DKG exchange.                                         *)
(***************************************************************************)

\* C9: when all members of the quorum have exchanged their Parts and Acks
\* and each has handled all acks before generating its keyset, every member
\* has derived a public-key set and a quorum id, and they are the same for
\* all members; no step of the exchange fails on the way.
C9_SameKeysetAndQuorumId ==
    /\ dkg_pc # "panicked"
    /\ \A n, m \in DkgNodes :
          IsSome(public_key_set[n]) /\ IsSome(public_key_set[m])
          => /\ public_key_set[n] = public_key_set[m]
             /\ quorum_membership[n].id = quorum_membership[m].id
    /\ dkg_pc = "done"
       => \A n \in DkgNodes :
            /\ IsSome(public_key_set[n])
            /\ IsSome(quorum_membership[n].id)

\* the exchange has finished, the members' Parts were drawn from different
\* polynomials, and every member holds a keyset made of all the Parts
C9_Witness ==
    /\ dkg_pc = "done"
    /\ \E p, q \in dkg_parts : p.commitment # q.commitment
    /\ \A n \in DkgNodes :
          /\ IsSome(public_key_set[n])
          /\ public_key_set[n][1].commitments = dkg_parts
          /\ IsSome(quorum_membership[n].id)

(***************************************************************************)
(* Properties of the consolidation.                                        *)
(***************************************************************************)

\* the sum of the amounts f[i] that are Some, cut off at the largest amount
SaturatingSumOf(f) ==
    LET idx == {i \in DOMAIN f : IsSome(f[i])}
        total == SumOf([i \in idx |-> Unwrap(f[i])], idx)
    IN IF idx = {} THEN None
       ELSE Some(IF total > MaxAmount THEN MaxAmount ELSE total)

\* C19: the consolidated credits, and likewise the debits, of an address are
\* the saturating sum of the values of its updates; an overflow gives the
\* largest amount, never a wrapped value and never a crash.
C19_SaturatingConsolidation ==
    /\ cs_status # "panicked"
    /\ cs_status = "done"
       => /\ Unwrap(cs_consolidated).credits
               = SaturatingSumOf([i \in DOMAIN cs_order |-> cs_order[i].credits])
          /\ Unwrap(cs_consolidated).debits
               = SaturatingSumOf([i \in DOMAIN cs_order |-> cs_order[i].debits])

\* a storage or code value that is not empty: Some(Some(value))
NonEmpty(v) == IsSome(v) /\ IsSome(Unwrap(v))

\* the value of the last update, in the order of the loop, that is not empty
MostRecentNonEmpty(f) ==
    LET idx == {i \in DOMAIN f : NonEmpty(f[i])}
    IN f[CHOOSE i \in idx : \A j \in idx : j <= i]

CarriedDigests(f) ==
    UNION {Unwrap(f[i].digests) : i \in {j \in DOMAIN f : IsSome(f[j].digests)}}

\* C21: after the consolidation the digests of the entry contain every sent,
\* received and staked digest carried by an update of the address.
C21_NoDigestLost ==
    cs_status = "done"
    => /\ CarriedDigests(cs_order) # {} => IsSome(Unwrap(cs_consolidated).digests)
       /\ IsSome(Unwrap(cs_consolidated).digests)
          => CarriedDigests(cs_order) \subseteq Unwrap(Unwrap(cs_consolidated).digests)

(***************************************************************************)
(* Properties of the records of the mempool.                               *)
(***************************************************************************)

\* the transaction has a record in the mempool
InMempool(t) ==
    \/ t \in DOMAIN mp_pool.pending
    \/ t \in DOMAIN mp_pool.validated
    \/ t \in DOMAIN mp_pool.rejected

\* C22: inserting a transaction whose digest is already in the mempool
\* changes nothing: the record, its status and its timestamps stay as they
\* were and no second entry appears.
C22_DuplicateInsertionIsNoOp ==
    [][\A t \in MempoolTxns :
          (InMempool(t) /\ AddTxn(t)) => mp_pool' = mp_pool]_vars

(***************************************************************************)
(* Properties of the DKG engine.                                           *)
(***************************************************************************)

\* C23: once clear_dkg_state has returned, the part store, the ack store and
\* the peer public keys are empty and the public-key set, the secret-key
\* share and the key generation instance are absent, as in a new engine; and
\* a reader of the engine never sees it with only some of the assignments of
\* clear_dkg_state done.
C23_ClearedAsNew ==
    /\ (eng_last.name = "clear_dkg_state" /\ eng_pc = 0)
       => eng_dkg_state = NewEngineDkgState
    /\ IsSome(eng_observed) => Unwrap(eng_observed).cleared \in {0, ClearSteps}

\* an engine that held parts, acks, peer keys, a key generation instance and
\* its key sets has been cleared, and a reader has seen the cleared engine
C23_Witness ==
    /\ eng_last.name = "clear_dkg_state"
    /\ eng_pc = 0
    /\ eng_last.before.part_message_store # {}
    /\ eng_last.before.ack_message_store # {}
    /\ eng_last.before.peer_public_keys # {}
    /\ IsSome(eng_last.before.public_key_set)
    /\ IsSome(eng_last.before.secret_key_share)
    /\ IsSome(eng_last.before.sync_key_gen)
    /\ IsSome(eng_observed)
    /\ Unwrap(eng_observed).dkg_state = NewEngineDkgState

(***************************************************************************)
(* Properties of the node runtime.                                         *)
(***************************************************************************)

\* C24: a quorum membership assignment delivered to a bootstrap node is
\* refused with an error, and the quorum membership of the node stays unset.
C24_BootstrapRefusesAssignment ==
    nr_node_type = "Bootstrap"
    => /\ nr_quorum_membership = None
       /\ nr_last.name = "handle_quorum_membership_assigment_created"
          => nr_last.result = "Err"

\* a bootstrap node has been delivered an assignment
C24_Witness ==
    /\ nr_node_type = "Bootstrap"
    /\ nr_last.name = "handle_quorum_membership_assigment_created"
    /\ nr_last.result = "Err"

\* C26: for every transaction a farmer validates it casts a vote; a
\* transaction that fails the validation (amount above the balance, invalid
\* signature, invalid timestamp, unknown sender) gets a vote marked invalid,
\* not an error and not silence.
C26_EveryValidatedTxnGetsAVote ==
    nr_last.name = "validate_and_vote"
    => /\ nr_last.result = "Ok"
       /\ \E txn \in nr_mempool :
             /\ txn.id = nr_last.txn
             /\ VoteOf(RuntimeNodeId, txn, validate_transaction_kind(txn))
                   \in nr_votes
             /\ txn.id # "valid"
                => VoteOf(RuntimeNodeId, txn, FALSE) \in nr_votes

\* a farmer has voted on a valid transaction and on one of each kind of
\* invalid transaction
C26_Witness ==
    /\ nr_last.name = "validate_and_vote"
    /\ \A txn \in RuntimeTxns :
          VoteOf(RuntimeNodeId, txn, txn.id = "valid") \in nr_votes

(***************************************************************************)
(* Properties of the miner election.                                       *)
(***************************************************************************)

\* the place of a claim hash in the lexicographic order
HashRank(hash) == CHOOSE i \in DOMAIN ClaimHashes : ClaimHashes[i] = hash

\* the claims that yield a pointer
PointerClaims ==
    {el_claim_map[i] : i \in {j \in DOMAIN el_claim_map :
                                 IsSome(el_claim_map[j].pointer)}}

\* C27: get_lowest_pointer returns the claim with the lowest pointer; among
\* the claims that share the lowest pointer it returns the one whose hash is
\* the smallest in lexicographic order; it returns None only when no claim
\* yields a pointer.
C27_LowestPointerThenSmallestHash ==
    el_result.called
    => IF PointerClaims = {}
       THEN el_result.value = None
       ELSE /\ IsSome(el_result.value)
            /\ \E c \in PointerClaims :
                  /\ Unwrap(el_result.value) = <<c.hash, Unwrap(c.pointer)>>
                  /\ \A d \in PointerClaims :
                        \/ Unwrap(c.pointer) < Unwrap(d.pointer)
                        \/ /\ Unwrap(c.pointer) = Unwrap(d.pointer)
                           /\ HashRank(c.hash) <= HashRank(d.hash)

(***************************************************************************)
(* Properties of the delivery of events to the subscribers.                *)
(***************************************************************************)

\* the events delivered to a subscriber: those it has received, then those
\* that wait in its receiver
DeliveredTo(sub) == rt_received[sub] \o rt_queue[sub]

\* C28: for each topic, the events a subscriber receives are exactly the
\* events sent on that topic since it subscribed, in the same order and
\* with no event missing: each event the router fans out on the topic is
\* added after the events already delivered to the subscriber, and nothing
\* else changes what is delivered to it.
C28_TopicDeliveryIsFifoAndComplete ==
    [][\A sub \in Subscribers :
          IF RouterReceive /\ Head(rt_inbox)[1] \in rt_topics
                           /\ rt_subs[sub] = Head(rt_inbox)[1]
          THEN DeliveredTo(sub)' = Append(DeliveredTo(sub), Head(rt_inbox)[2])
          ELSE DeliveredTo(sub)' = DeliveredTo(sub)]_vars

(***************************************************************************)
(* Properties of the shutdown of the node.                                 *)
(***************************************************************************)

\* the node has taken the stop signal and sent Stop to the router
StopSignalled == node_pc # "running"

\* every component task has left its loop and the node's status is Stopped
NodeStopped ==
    /\ node_pc = "stopped"
    /\ \A sub \in Subscribers : rt_subs[sub] # NoTopic => TaskExited(sub)

\* C29: after a Stop control signal every component task exits, with no
\* apply left half-done, and the status of the node becomes Stopped.
C29_StopUnwindsEveryTask == StopSignalled ~> NodeStopped

(***************************************************************************)
(* Properties of the promotion of a certified convergence block.           *)
(***************************************************************************)

\* the certificate that the handler of BlockCertificateCreated is about to take
NextCertificate == Head(events).cert

\* C30: once the partial signatures of a pending convergence block reach the
\* harvester threshold the certificate is attached and the block is promoted:
\* when the certificate formed at the threshold has been handled, the block
\* has left pending_convergence_blocks and is last_confirmed, with the
\* certificate attached.
C30_ThresholdPromotesPendingBlock ==
    [][(/\ HandleBlockCertificateCreated
        /\ HasPending(pending_convergence_blocks, NextCertificate.block_hash))
       => /\ ~HasPending(pending_convergence_blocks', NextCertificate.block_hash)
          /\ IsSome(last_confirmed_block')
          /\ Unwrap(last_confirmed_block').hash = NextCertificate.block_hash
          /\ Unwrap(last_confirmed_block').certificate = Some(NextCertificate)]_vars

(***************************************************************************)
(* Properties of the order of the state applies.                           *)
(***************************************************************************)

\* the convergence blocks this step applies state for
AppliedNow ==
    IF IsSome(apply_result')
    THEN {h \in {Unwrap(apply_result')} : KindOf(h) = "Convergence"}
    ELSE {}

\* C31: state is applied only for a convergence block that has been
\* confirmed, that is certified and made last_confirmed, and the rounds are
\* applied in the order in which last_confirmed advanced: a block whose
\* state is applied is the certified block last_confirmed stands at.
C31_ApplyFollowsLastConfirmed ==
    [][\A h \in AppliedNow :
          /\ IsSome(last_confirmed_block')
          /\ Unwrap(last_confirmed_block').hash = h
          /\ IsSome(Unwrap(last_confirmed_block').certificate)]_vars

(***************************************************************************)
(* Properties of the shape of the DAG.                                     *)
(***************************************************************************)

\* the last call admitted a convergence block as confirmed: it returned
\* Ok(Some(block)) and last_confirmed is the block
ConfirmedNow ==
    /\ last_op.op \in {"append_convergence",
                       "append_certificate_to_convergence_block"}
    /\ last_op.result = "OkSome"
    /\ IsSome(last_confirmed_block)
    /\ Unwrap(last_confirmed_block).hash = last_op.hash

\* the vertex with hash h has an edge from a Proposal vertex
HasProposalSource(h) ==
    \E e \in dag_edges :
       /\ e[2] = h
       /\ HasVertex(dag_vertices, e[1])
       /\ GetVertex(dag_vertices, e[1]).kind = "Proposal"

\* C32: every convergence block admitted as confirmed is a vertex of the DAG
\* with an edge from at least one Proposal vertex.
C32_ConfirmedConvergenceHasProposalEdge ==
    ConfirmedNow
    => /\ HasVertex(dag_vertices, last_op.hash)
       /\ GetVertex(dag_vertices, last_op.hash).kind = "Convergence"
       /\ HasProposalSource(last_op.hash)

\* the edges that point at the vertex with hash h
ReferenceEdges(h) == {e \in dag_edges : e[2] = h}

OrdersOf(S) ==
    {o \in [1..Cardinality(S) -> S] :
        \A i, j \in 1..Cardinality(S) : i # j => o[i] # o[j]}

RECURSIVE ConsolidatedInOrder(_)
\* the entry the loop of consolidate_update_args builds when it meets the
\* updates in the order o
ConsolidatedInOrder(o) ==
    IF Len(o) = 1 THEN o[1]
    ELSE and_modify(ConsolidatedInOrder(SubSeq(o, 1, Len(o) - 1)), o[Len(o)])

\* the updates the consolidation has processed
ProcessedUpdates == {cs_order[i] : i \in DOMAIN cs_order}

\* C34: the consolidated update_args of a round, and with them the state
\* root, are the same for every order in which the updates of the round are
\* processed.
C34_ConsolidationIsOrderIndependent ==
    cs_status = "done"
    => \A o \in OrdersOf(ProcessedUpdates) :
          ConsolidatedInOrder(o) = Unwrap(cs_consolidated)

(***************************************************************************)
(* Properties of the status of a transaction in the mempool.               *)
(***************************************************************************)

\* the statuses under which the mempool m holds a record of transaction t
StatusesOf(m, t) ==
    {s \in {"Pending", "Validated", "Rejected"} :
        \/ s = "Pending" /\ t \in DOMAIN m.pending
        \/ s = "Validated" /\ t \in DOMAIN m.validated
        \/ s = "Rejected" /\ t \in DOMAIN m.rejected}

\* a change of status the mempool allows: a new entry is Pending, a Pending
\* entry becomes Validated or Rejected, an entry is removed
StatusChangeAllowed(before, after) ==
    \/ after = before
    \/ before = {} /\ after = {"Pending"}
    \/ before = {"Pending"} /\ after \in {{"Validated"}, {"Rejected"}}
    \/ after = {}

\* C35: in every view of the mempool each transaction digest has exactly one
\* status, it is in at most one of the Pending, Validated and Rejected sets,
\* and its status only changes from Pending to Validated or to Rejected.
C35_OneStatusPerDigest ==
    /\ [](\A t \in MempoolTxns : Cardinality(StatusesOf(mp_pool, t)) <= 1)
    /\ [][\A t \in MempoolTxns :
             StatusChangeAllowed(StatusesOf(mp_pool, t), StatusesOf(mp_pool, t)')]_vars

\* C36: purge_txn_rejected removes every rejected transaction: after it
\* returns the readers see an empty Rejected set, and the Pending and the
\* Validated sets are as before.
C36_PurgeEmptiesRejected ==
    [][PurgeTxnRejected
       => /\ DOMAIN mp_pool'.rejected = {}
          /\ mp_pool'.pending = mp_pool.pending
          /\ mp_pool'.validated = mp_pool.validated]_vars

(***************************************************************************)
(* Properties of the precheck of a convergence block.                      *)
(***************************************************************************)

\* C37: a harvester emits SignConvergenceBlock for a convergence block only
\* when the precheck of that block succeeded on both of its checks; a failed
\* or erroring precheck yields an error and no signing request.
C37_SignOnlyAfterFullPrecheck ==
    [][\A h \in SigHashes, precheck \in PrecheckResults :
          HandleConvergenceBlockPrecheckRequested(MkBlock(h, None), precheck)
          => IF precheck = PrecheckOk(TRUE, TRUE)
             THEN is_harvester
                  => events' = Append(events, SignConvergenceBlock(MkBlock(h, None)))
             ELSE /\ events' = events
                  /\ last_op'.result # "Ok"]_vars

\* a precheck that passed both checks has put a signing request in the queue
C37_Witness ==
    /\ last_op.op = "convergence_block_precheck_requested"
    /\ last_op.result = "Ok"
    /\ last_op.precheck = PrecheckOk(TRUE, TRUE)
    /\ events # <<>>
    /\ events[Len(events)] = SignConvergenceBlock(MkBlock(last_op.hash, None))

(***************************************************************************)
(* Properties of slashing.                                                 *)
(***************************************************************************)

\* the claims of the ledger that have been slashed
SlashedHashes ==
    {el_claim_map[i].hash : i \in {j \in DOMAIN el_claim_map :
                                      ~el_claim_map[j].eligible}}

\* C38: a claim that has been slashed (eligible = false) is never the winner
\* that a later call of get_lowest_pointer returns.
C38_SlashedClaimNeverWins ==
    (el_result.called /\ IsSome(el_result.value))
        => Unwrap(el_result.value)[1] \notin SlashedHashes

(***************************************************************************)
(* Frame of a failed append.                                               *)
(***************************************************************************)

\* the state of the DAG module that append_convergence can write
DagState ==
    <<dag_vertices, dag_edges, last_confirmed_block, pending_convergence_blocks>>

\* C39: when append_convergence returns an error, the vertices and edges of
\* the DAG, last_confirmed and pending_convergence_blocks are exactly as they
\* were before the call.
C39_FailedAppendLeavesDagUnchanged ==
    [][\A block \in ConvergenceInputs :
          (/\ HandleConvergenceBlockReceived(block)
           /\ last_op'.result = "Err")
          => DagState' = DagState]_vars

(***************************************************************************)
(* The validator fee of a transaction without a true vote.                 *)
(***************************************************************************)

\* the transactions of the round for which no validator cast a true vote
UnvotedTxns(round) ==
    {d \in UNION {block.txns : block \in filtered_proposals(round)} :
        TxnOf(d).validators = {}}

\* C40: building the state updates of a transaction never divides by zero;
\* a transaction for which no validator cast a true vote yields no
\* validator-fee updates and the apply of the round is not aborted.
C40_NoDivisionByZero ==
    [][\A round \in Rounds :
          (UpdateState(round) /\ UnvotedTxns(round) # {})
          => state_result' # "Panic"]_vars

====
